---- MODULE Spec2Model ----
(***************************************************************************)
(* Snapshot lifecycle of the video markup tool: the inline SnapshotManager *)
(* (src/js/snapshot-manager.js, first definition), the inline DrawingTool  *)
(* (src/js/drawing-tool.js), VideoHandler (src/js/video-handler.js),       *)
(* ProjectManager (src/js/project-manager.js) and the Dexie-backed Storage *)
(* (src/unnamed/part_003, second definition).                              *)
(*                                                                         *)
(* The browser is one event loop.  A handler runs until its next await;    *)
(* the awaited store request takes effect when it is issued (IndexedDB     *)
(* runs overlapping requests in the order they were made) and its result   *)
(* is delivered later, in that same order, interleaved with user events    *)
(* and timers.  `queue` holds the suspended handlers in delivery order;    *)
(* each record carries the handler's locals and the value the store read   *)
(* returned.                                                               *)
(*                                                                         *)
(* A video position is a number of 50 ms units, so the 0.1 s tolerance is   *)
(* 2 units.  Timers count ticks of 100 ms, so the 300 ms debounce is 3     *)
(* ticks; a delay of 0 stands for "after some delay" where the clock is    *)
(* not part of the specification.                                          *)
(***************************************************************************)
EXTENDS Integers, Sequences, FiniteSets, TLC

\* ------------------------------------------------------------------ bounds
MaxId == 5          \* highest id the snapshot store hands out
MaxTime == 2        \* video positions are 0..MaxTime
MaxText == 2        \* comment texts are 0 (empty) .. MaxText
MaxObjs == 2        \* shapes on the canvas
MaxQueue == 2       \* suspended handlers a user event may add to
MaxDraws == 1       \* draw-first captures (temporary ids)
MaxFailures == 1    \* store writes that fail
MaxEvents == 1      \* media events pending when the play button is pressed
MaxInputs == 3       \* user inputs in one run
MaxWidth == 12
MaxHeight == 8
MaxTags == 2
MaxRecords == 3
MaxGestures == 4           \* press and release events in one run
MaxBytes == 2              \* distinct image contents
MaxProjects == 3           \* projects in the store
MaxClock == 5              \* milliseconds that pass in one run
ResizeThreshold == 2      \* resizeCanvas ignores changes of at most 2 px

\* ------------------------------------------------------- program constants
Tolerance == 2      \* 0.1 s  (Math.abs(s.timestamp - timestamp) < 0.1)
Debounce == 3       \* 300 ms (setTimeout(doSave, 300))

Null == 0           \* null / undefined id
Undefined == -1     \* fabricData argument: "don't update fabricData"
NoTimer == -1       \* no timeout pending

TagButtons == <<"vfx", "roto">>   \* .tag-btn elements of .tags-grid-inline, in DOM order
Tags == {TagButtons[i] : i \in DOMAIN TagButtons}
HourValues == {"", "0", "3", "-2"}   \* contents of a .tag-hours-input (type=number)
DrawingTools == {"draw", "rect", "circle", "arrow", "text"}
Times == 0..MaxTime
Texts == 0..MaxText

VARIABLES
    projects,               \* db.projects: ids of the stored projects
    db,                     \* db.snapshots: id -> record
    nextId,                 \* next auto-increment key of db.snapshots
    paused,                 \* VideoHandler.video.paused
    currentTime,            \* VideoHandler.video.currentTime
    currentProjectId,       \* VideoHandler.currentProjectId
    isPlaying,              \* VideoHandler.isPlaying
    mediaEvents,            \* "play"/"pause" events queued on the video element
    currentSnapshotId,      \* SnapshotManager.currentSnapshotId
    quickCommentSnapshotId, \* SnapshotManager.quickCommentSnapshotId
    isCreatingSnapshot,     \* SnapshotManager.isCreatingSnapshot
    snapshots,              \* SnapshotManager.snapshots (one card and marker each)
    activeSnapshotId,       \* DrawingTool.activeSnapshotId
    canvasObjs,             \* objects on DrawingTool.canvas
    canvasReady,            \* DrawingTool.canvasReady
    editing,                \* .video-wrapper has class "editing"
    overlay,                \* pending onload of #snapshotOverlay
    flows,                  \* draw-first mousedown handlers, by temporary id
    comment,                \* #commentInputInline content
    tagActive,              \* tags whose .tag-btn has class "active"
    hoursValue,             \* tag -> value of its .tag-hours-input
    smTimer,                \* SnapshotManager.autoSaveTimeout (units left)
    dtTimer,                \* DrawingTool.autoSaveTimeout (units left)
    queue,                  \* suspended handlers, in delivery order
    toast,                  \* last App.showToast message
    wrote,                  \* id given to Storage.updateSnapshot by this step
    lastEdit,               \* [id, at]: active id and video time of the last panel edit
    lastDraw,               \* DrawingTool.activeSnapshotId when the canvas content was drawn
    toggledOff,             \* <<id, tag>>: tag toggled off on active snapshot id
    retoggle,               \* <<id, tag, phase>>: tag with hours toggled "off", then "on", on snapshot id
    persistFailures,        \* failed Storage.updateSnapshot calls
    playCapture,            \* a frame was captured for a trigger received while playing
    sinceEdit,              \* units since the last edit of the current burst
    burstWrites,            \* Storage.updateSnapshot calls since the burst began
    cards,                  \* #snapshotsList: the .snapshot-card elements, in document order
    markers,                \* #snapshotMarkers: ids of the .snapshot-marker elements
    count,                  \* #snapshotCount: the displayed number of snapshots
    passed,                 \* [id, tags]: key and tags of the last addSnapshot / updateSnapshot call
    returned,               \* records returned by the last Storage.getSnapshot(s) call
    canvasWidth,            \* DrawingTool.canvas.getWidth()
    canvasHeight,           \* DrawingTool.canvas.getHeight()
    shape,                  \* [left, top] of the first object on DrawingTool.canvas
    deleteHoldTimer,        \* per delete button: the closure's deleteHoldTimer (a handle or Null)
    timeouts,               \* the pending setTimeout callbacks of the delete buttons: [w, h]
    held,                   \* per delete button: presses that have not been released
    handles,                \* setTimeout handles issued so far
    gestures,               \* press and release events handled so far
    loading,                \* the video element is loading a source; no loadedmetadata yet
    listeners,              \* projects whose once-listener for loadedmetadata is registered
    archive,                \* the .zip file last exported: its snapshot folders
    now,                    \* the date `new Date()` returns, in milliseconds
    lastEditedAt,           \* db.projects: project id -> lastEditedAt
    mutated,                \* the project whose snapshots were mutated last
    inputs                  \* user inputs handled so far

store == <<projects, db, nextId>>
video == <<paused, currentTime, currentProjectId, isPlaying, mediaEvents>>
manager == <<currentSnapshotId, quickCommentSnapshotId, isCreatingSnapshot, snapshots>>
drawing == <<activeSnapshotId, canvasObjs, canvasReady, editing, overlay, flows>>
panel == <<comment, tagActive, hoursValue>>
timers == <<smTimer, dtTimer>>
history == <<wrote, lastEdit, lastDraw, toggledOff, retoggle, persistFailures, playCapture, sinceEdit, burstWrites>>
sidebar == <<cards, markers, count>>
measured == <<passed, returned, canvasWidth, canvasHeight, shape>>
gesture == <<deleteHoldTimer, timeouts, held, handles, gestures>>
loader == <<loading, listeners>>
sharing == <<archive>>
recent == <<now, lastEditedAt, mutated>>
extras == <<gesture, loader, sharing, recent>>
standalone == <<measured, extras>>
vars == <<store, video, manager, drawing, panel, timers, queue, toast, history, inputs, sidebar,
          standalone>>

\* ------------------------------------------------------------------ values
Abs(x) == IF x < 0 THEN -x ELSE x

Has(s, x) == \E i \in DOMAIN s : s[i] = x

\* the tags as they were passed
Verbatim(s) == s

\* [...new Set(tags)]: first occurrences, in order
RECURSIVE Dedupe(_)
Dedupe(s) ==
    IF s = <<>> THEN <<>>
    ELSE LET r == Dedupe(SubSeq(s, 1, Len(s) - 1))
         IN IF Has(r, s[Len(s)]) THEN r ELSE Append(r, s[Len(s)])

\* parseFloat(input.value): NaN for a blank or non-numeric value
IsNaN(v) == v \in {"", "x"}
ParseFloat(v) == CASE v = "3" -> 3 [] v = "0" -> 0 [] v = "-2" -> 0 - 2 [] OTHER -> 0
\* input.value = number
NumberToValue(n) == CASE n = 3 -> "3" [] n = 0 -> "0" [] n = 0 - 2 -> "-2" [] OTHER -> ""

NoHours == [t \in {} |-> 0]

NoSnapshot == [projectId |-> Null, timestamp |-> 0, comment |-> 0, tags |-> <<>>,
               tagHours |-> NoHours, fabricData |-> Null, markedUpImage |-> Null]

NoUpdates == [comment |-> 0, tags |-> <<>>, tagHours |-> NoHours,
              fabricData |-> Undefined, markedUpImage |-> Undefined]

Cont(k, id, snap, fab, txt, who, upd) ==
    [k |-> k, id |-> id, snap |-> snap, fab |-> fab, txt |-> txt, who |-> who, upd |-> upd]

TempId(f) == 0 - f

\* ------------------------------------------------------------------- store
ProjectSnapshots(p) == {id \in DOMAIN db : db[id].projectId = p}

\* Storage.getSnapshot: the record with its tags deduplicated, or undefined
GetSnapshot(id) ==
    IF id \in DOMAIN db THEN [db[id] EXCEPT !.tags = Dedupe(@)] ELSE NoSnapshot

\* SnapshotManager.findSnapshotAtTime over Storage.getSnapshots (sorted by
\* timestamp, equal timestamps in key order): the id of the first match
FindSnapshotAtTime(timestamp) ==
    LET near == {id \in ProjectSnapshots(currentProjectId) :
                    Abs(db[id].timestamp - timestamp) < Tolerance}
    IN IF near = {} THEN Null
       ELSE CHOOSE id \in near : \A o \in near :
                \/ db[id].timestamp < db[o].timestamp
                \/ db[id].timestamp = db[o].timestamp /\ id <= o

\* Storage.addSnapshot: the store after the add (the key is nextId)
AddSnapshot(snapshot) ==
    (nextId :> [projectId |-> snapshot.projectId,
                timestamp |-> snapshot.timestamp,
                comment |-> snapshot.comment,
                tags |-> Dedupe(snapshot.tags),
                tagHours |-> snapshot.tagHours,
                fabricData |-> Null,
                markedUpImage |-> Null]) @@ db

\* an update that stores the record whether or not the key exists (put)
PutSnapshot(id, updates) ==
    (id :> [projectId |-> currentProjectId, timestamp |-> currentTime,
            comment |-> updates.comment, tags |-> Dedupe(updates.tags),
            tagHours |-> updates.tagHours, fabricData |-> Null,
            markedUpImage |-> Null]) @@ db

\* Storage.updateSnapshot: db.snapshots.update changes an existing record only
UpdateSnapshot(id, updates) ==
    IF id \notin DOMAIN db THEN db
    ELSE [db EXCEPT ![id] =
            [@ EXCEPT !.comment = updates.comment,
                      !.tags = Dedupe(updates.tags),
                      !.tagHours = updates.tagHours,
                      !.fabricData = IF updates.fabricData = Undefined THEN @
                                     ELSE updates.fabricData,
                      !.markedUpImage = IF updates.markedUpImage = Undefined THEN @
                                        ELSE updates.markedUpImage]]

\* a mutation that leaves the project's dates alone
KeepLastEditedAt(p) == lastEditedAt

\* db.projects.update(projectId, {lastEditedAt: new Date()}): an existing
\* project only
UpdateLastEditedAt(p) ==
    IF p \in projects THEN [lastEditedAt EXCEPT ![p] = now] ELSE lastEditedAt

\* Storage.deleteSnapshot
DeleteSnapshot(id) == [i \in DOMAIN db \ {id} |-> db[i]]

\* Storage.getSnapshots: the project's records sorted by timestamp (equal
\* timestamps in key order), as ids
RECURSIVE SortBy(_)
SortBy(ids) ==
    IF ids = {} THEN <<>>
    ELSE LET first == CHOOSE id \in ids : \A o \in ids :
                          \/ db[id].timestamp < db[o].timestamp
                          \/ db[id].timestamp = db[o].timestamp /\ id <= o
         IN <<first>> \o SortBy(ids \ {first})

GetSnapshotIds(p) == SortBy(ProjectSnapshots(p))

\* Storage.getSnapshots: the records, each with its tags deduplicated
GetSnapshots(p) == [i \in DOMAIN GetSnapshotIds(p) |-> GetSnapshot(GetSnapshotIds(p)[i])]

\* Storage.deleteProject: one transaction over both tables
DeleteProjectSnapshots(p) == [i \in DOMAIN db \ ProjectSnapshots(p) |-> db[i]]

\* ------------------------------------------------------------------- panel
\* saveInlineEdit: the active .tag-btn elements, each tag once
PanelTags == Dedupe(SelectSeq(TagButtons, LAMBDA t : t \in tagActive))

\* the hours of the active tags without the `hours > 0` test
PanelTagHoursUnfiltered ==
    LET keys == {t \in Tags : /\ hoursValue[t] # ""
                              /\ Has(PanelTags, t)
                              /\ ~IsNaN(hoursValue[t])}
    IN [t \in keys |-> ParseFloat(hoursValue[t])]

\* no hours collected from the panel
NoPanelTagHours == NoHours

\* saveInlineEdit: hours of the active tags whose input parses to a number > 0
PanelTagHours ==
    LET keys == {t \in Tags : /\ hoursValue[t] # ""
                              /\ Has(PanelTags, t)
                              /\ ~IsNaN(hoursValue[t])
                              /\ ParseFloat(hoursValue[t]) > 0}
    IN [t \in keys |-> ParseFloat(hoursValue[t])]

\* the .tag-hours-input of tag t holds hours: `hours > 0` after parseFloat
HasHours(t) == ~IsNaN(hoursValue[t]) /\ ParseFloat(hoursValue[t]) > 0

\* a new snapshot that starts with no tag
NoInitialTags(active) == <<>>

\* tag click / hours input / hours blur: the tags and hours a new snapshot starts with
InitialTags(active) == SelectSeq(TagButtons, LAMBDA t : t \in active)

InitialTagHours(hours) ==
    LET keys == {t \in Tags : ~IsNaN(hours[t]) /\ ParseFloat(hours[t]) > 0}
    IN [t \in keys |-> ParseFloat(hours[t])]

\* loadSnapshotDataInline: what the panel shows for a stored record
LoadedTags(snapshot) == {t \in Tags : Has(snapshot.tags, t)}

LoadedHours(snapshot) ==
    [t \in Tags |-> IF t \in DOMAIN snapshot.tagHours /\ snapshot.tagHours[t] # 0
                    THEN NumberToValue(snapshot.tagHours[t]) ELSE ""]

\* ----------------------------------------------------------------- drawing
NoOverlay == [mode |-> "none", fab |-> Null, flow |-> 0]

\* DrawingTool.canvas exists once the video metadata has loaded (onVideoLoaded)
canvas == TRUE

\* DrawingTool.getCanvasData: null for an empty canvas
GetCanvasData == IF canvasObjs > 0 THEN canvasObjs ELSE Null

\* doSave with the canvas data whatever snapshot the canvas is bound to
DoSaveAlwaysCanvas(cur, act) == GetCanvasData

\* doSave: canvas data only when the canvas is bound to the snapshot being saved
DoSaveFabricData(cur, act) ==
    IF canvas /\ act = cur THEN GetCanvasData ELSE Undefined

\* a save that looks its snapshot up whatever the id
SaveWithoutId(q, id, fab) ==
    Append(q, Cont("saveInlineEdit", id, NoSnapshot, fab, lastDraw, "", NoUpdates))

\* saveInlineEdit up to its first await (Storage.getSnapshot)
SaveInlineEdit(q, id, fab) ==
    IF id = Null THEN q
    ELSE Append(q, Cont("saveInlineEdit", id, GetSnapshot(id), fab, lastDraw, "", NoUpdates))

\* an entry of SnapshotManager.snapshots (undefined: id Null)
Entry(id, snapshot) ==
    [id |-> IF snapshot = NoSnapshot THEN Null ELSE id,
     timestamp |-> snapshot.timestamp, fabricData |-> snapshot.fabricData]

HasUndefined(list) == \E i \in DOMAIN list : list[i].id = Null

\* the ids of the snapshot cards in #snapshotsList
Cards == {cards[i].id : i \in DOMAIN cards}

\* addSnapshotToList: list.appendChild(card); n numbers the cards in the order
\* in which they were appended
AddSnapshotToList(id, snapshot) ==
    LET last == IF cards = <<>> THEN 0
                ELSE CHOOSE n \in {cards[i].n : i \in DOMAIN cards} :
                         \A i \in DOMAIN cards : cards[i].n <= n
    IN Append(cards, [id |-> id, timestamp |-> snapshot.timestamp, n |-> last + 1])

\* the cards left in the order in which they were appended
AppendOrder(cs) == cs

\* sortSnapshotsByTimecode: Array.prototype.sort by dataset.timestamp (stable),
\* then the cards are re-appended in that order
RECURSIVE SortSnapshotsByTimecode(_)
SortSnapshotsByTimecode(cs) ==
    IF cs = <<>> THEN <<>>
    ELSE LET r == SortSnapshotsByTimecode(SubSeq(cs, 1, Len(cs) - 1))
             c == cs[Len(cs)]
             k == Cardinality({i \in DOMAIN r : r[i].timestamp <= c.timestamp})
         IN SubSeq(r, 1, k) \o <<c>> \o SubSeq(r, k + 1, Len(r))

\* updateSnapshotCount: the number of .snapshot-card elements
UpdateSnapshotCount(cs) == Len(cs)

\* VideoHandler.loadProject: a card and a marker per stored snapshot, then the sort
LoadedCards(ids) ==
    SortSnapshotsByTimecode([i \in DOMAIN ids |->
        [id |-> ids[i], timestamp |-> db[ids[i]].timestamp, n |-> i]])

\* video.pause() / video.play(): the attribute changes now, the event is queued
PauseEvents == IF paused THEN mediaEvents ELSE Append(mediaEvents, "pause")

\* displayMarkupsAtTimestamp: snapshots.find(...) then displayMarkups / hideMarkups
DisplayIndex(timestamp) ==
    LET hits == {i \in DOMAIN snapshots :
                    /\ \A j \in 1..i : snapshots[j].id # Null
                    /\ Abs(snapshots[i].timestamp - timestamp) < Tolerance}
    IN IF hits = {} THEN 0 ELSE CHOOSE i \in hits : \A j \in hits : i <= j

\* creations that suspended handlers may still start
PendingCreates ==
    Cardinality({i \in DOMAIN queue :
                    queue[i].k = "handleCommentInput" /\ queue[i].id = Null /\ queue[i].txt > 0})

CanCreate == nextId + PendingCreates <= MaxId
CanSuspend == Len(queue) < MaxQueue

\* ----------------------------------------------------------------- history
Quiescent == queue = <<>> /\ smTimer = NoTimer /\ dtTimer = NoTimer

\* a debounced edit of the panel or the canvas while `id` is active
BurstAfterEdit(id) ==
    IF sinceEdit < 0 THEN burstWrites
    ELSE IF id = Null THEN -1
    ELSE IF sinceEdit >= Debounce \/ burstWrites < 0 \/ lastEdit.id # id
         THEN (IF Quiescent THEN 0 ELSE -1)
         ELSE burstWrites

Edited ==
    /\ lastEdit' = [id |-> currentSnapshotId, at |-> currentTime]
    /\ sinceEdit' = IF sinceEdit < 0 THEN sinceEdit ELSE 0

NotEdited == UNCHANGED <<lastEdit, sinceEdit>>

NoWrite == wrote' = Null /\ UNCHANGED persistFailures

\* a user input, while the run has inputs left
UserInput == inputs < MaxInputs /\ inputs' = inputs + 1

NoEdit == [id |-> Null, at |-> 0]
NoToggle == <<Null, "">>
NoRetoggle == <<Null, "", "">>

Silent ==
    /\ NoWrite
    /\ NotEdited
    /\ UNCHANGED <<lastDraw, toggledOff, retoggle, playCapture, burstWrites>>

\* -------------------------------------------------------------------- Init
\* Project 1 is loaded and paused at 0; project 2 is stored with one snapshot
\* (id 1).  Project 1 is either new (no snapshot) or was marked up in an
\* earlier session: snapshot 2 at position 0 (comment, tag with hours, one
\* shape) and snapshot 3 at position MaxTime (comment only), which
\* VideoHandler.loadProject lists in timestamp order.
Other == [NoSnapshot EXCEPT !.projectId = 2, !.comment = 1]

StoredA == [projectId |-> 1, timestamp |-> 0, comment |-> 1, tags |-> <<"vfx">>,
            tagHours |-> ("vfx" :> 3), fabricData |-> 1, markedUpImage |-> 11]

StoredB == [projectId |-> 1, timestamp |-> MaxTime, comment |-> 2, tags |-> <<>>,
            tagHours |-> NoHours, fabricData |-> Null, markedUpImage |-> Null]

\* the page after init() and VideoHandler.loadProject(1): paused at 0, nothing
\* selected, the inline panel empty, no handler in flight
InitSession ==
    /\ paused = TRUE
    /\ currentTime = 0
    /\ currentProjectId = 1
    /\ isPlaying = FALSE
    /\ mediaEvents = <<>>
    /\ currentSnapshotId = Null
    /\ quickCommentSnapshotId = Null
    /\ isCreatingSnapshot = FALSE
    /\ activeSnapshotId = Null
    /\ canvasObjs = 0
    /\ canvasReady = FALSE
    /\ editing = FALSE
    /\ overlay = NoOverlay
    /\ flows = <<>>
    /\ comment = 0
    /\ tagActive = {}
    /\ hoursValue = [t \in Tags |-> ""]
    /\ smTimer = NoTimer
    /\ dtTimer = NoTimer
    /\ queue = <<>>
    /\ toast = ""
    /\ wrote = Null
    /\ lastEdit = NoEdit
    /\ lastDraw = Null
    /\ toggledOff = NoToggle
    /\ retoggle = NoRetoggle
    /\ persistFailures = 0
    /\ playCapture = FALSE
    /\ burstWrites = -1
    /\ inputs = 0

InitProgram(stored) ==
    /\ projects = {1, 2}
    /\ db = IF stored THEN (1 :> Other) @@ (2 :> StoredA) @@ (3 :> StoredB)
            ELSE (1 :> Other)
    /\ nextId = IF stored THEN 4 ELSE 2
    /\ snapshots = IF stored THEN <<Entry(2, StoredA), Entry(3, StoredB)>> ELSE <<>>
    /\ cards = IF stored THEN LoadedCards(GetSnapshotIds(1)) ELSE <<>>
    /\ markers = IF stored THEN {2, 3} ELSE {}
    /\ count = UpdateSnapshotCount(cards)
    /\ InitSession

\* nothing has been read from the store; the canvas has the size of the video
\* display and holds no measured shape
NoShape == [left |-> 0, top |-> 0]

NoCall == [id |-> Null, tags |-> <<>>]

\* the delete buttons of snapshot 2's card and of project 2's list entry
Widgets == {"card", "project"}

\* no button is pressed and no hold timeout is pending
InitGesture ==
    /\ deleteHoldTimer = [w \in Widgets |-> Null]
    /\ timeouts = {}
    /\ held = [w \in Widgets |-> 0]
    /\ handles = 0
    /\ gestures = 0

\* the video of the loaded project has its metadata; no listener is waiting
InitLoader == loading = FALSE /\ listeners = <<>>

\* nothing has been exported
NoArchive == [exported |-> FALSE, folders |-> <<>>]

InitSharing == archive = NoArchive

\* project 2 was created and given its snapshot first, project 1 was edited
\* after it, at date 2; that date has passed
InitRecent ==
    /\ now = 3
    /\ lastEditedAt = [p \in 1..MaxProjects |-> IF p = 1 THEN 2 ELSE IF p = 2 THEN 1 ELSE 0]
    /\ mutated = 1

InitExtras == InitGesture /\ InitLoader /\ InitSharing /\ InitRecent

InitStandalone ==
    /\ passed = NoCall
    /\ returned = <<>>
    /\ canvasWidth = MaxWidth
    /\ canvasHeight = MaxHeight
    /\ shape = NoShape
    /\ InitExtras

Init == InitProgram(FALSE) /\ sinceEdit = -1 /\ InitStandalone

InitStored == InitProgram(TRUE) /\ sinceEdit = -1 /\ InitStandalone

\* ------------------------------------------------------------------- video
\* VideoHandler.togglePlay
TogglePlay ==
    /\ UserInput
    /\ UNCHANGED standalone
    /\ UNCHANGED sidebar
    /\ Len(mediaEvents) < MaxEvents
    /\ currentProjectId # Null
    /\ paused' = isPlaying
    /\ mediaEvents' = IF paused' = paused THEN mediaEvents
                      ELSE Append(mediaEvents, IF isPlaying THEN "pause" ELSE "play")
    /\ UNCHANGED <<store, currentTime, currentProjectId, isPlaying, manager, drawing,
                   panel, timers, queue, toast>>
    /\ Silent

\* VideoHandler.onPlay
OnPlay ==
    /\ UNCHANGED inputs
    /\ UNCHANGED standalone
    /\ UNCHANGED sidebar
    /\ mediaEvents # <<>> /\ Head(mediaEvents) = "play"
    /\ mediaEvents' = Tail(mediaEvents)
    /\ isPlaying' = TRUE
    /\ comment' = 0
    /\ quickCommentSnapshotId' = Null
    /\ overlay' = NoOverlay
    /\ canvasObjs' = 0
    /\ IF currentSnapshotId # Null
       THEN /\ currentSnapshotId' = Null
            /\ activeSnapshotId' = Null
            /\ canvasReady' = FALSE
            /\ editing' = FALSE
       ELSE UNCHANGED <<currentSnapshotId, activeSnapshotId, canvasReady, editing>>
    /\ lastDraw' = Null
    /\ UNCHANGED <<store, paused, currentTime, currentProjectId, isCreatingSnapshot,
                   snapshots, flows, tagActive, hoursValue, timers, queue, toast>>
    /\ NoWrite /\ NotEdited
    /\ UNCHANGED <<toggledOff, retoggle, playCapture, burstWrites>>

\* displayMarkupsAtTimestamp: the overlay and canvas after it
DisplayOverlay(timestamp) ==
    LET i == DisplayIndex(timestamp)
    IN IF i > 0 THEN [mode |-> "display", fab |-> snapshots[i].fabricData, flow |-> 0]
       ELSE IF HasUndefined(snapshots) THEN overlay ELSE NoOverlay

DisplayCanvas(timestamp) ==
    IF DisplayIndex(timestamp) = 0 /\ ~HasUndefined(snapshots) THEN 0 ELSE canvasObjs

\* VideoHandler.onPause
OnPause ==
    /\ UNCHANGED inputs
    /\ UNCHANGED standalone
    /\ UNCHANGED sidebar
    /\ mediaEvents # <<>> /\ Head(mediaEvents) = "pause"
    /\ mediaEvents' = Tail(mediaEvents)
    /\ isPlaying' = FALSE
    /\ overlay' = DisplayOverlay(currentTime)
    /\ canvasObjs' = DisplayCanvas(currentTime)
    /\ lastDraw' = IF canvasObjs' = canvasObjs THEN lastDraw ELSE Null
    /\ UNCHANGED <<store, paused, currentTime, currentProjectId, manager,
                   activeSnapshotId, canvasReady, editing, flows, panel, timers, queue, toast>>
    /\ NoWrite /\ NotEdited
    /\ UNCHANGED <<toggledOff, retoggle, playCapture, burstWrites>>

\* VideoHandler.seekTo (progress bar) and the advance of playback
Seek(t) ==
    /\ UserInput
    /\ UNCHANGED standalone
    /\ UNCHANGED sidebar
    /\ currentProjectId # Null
    /\ t # currentTime
    /\ currentTime' = t
    /\ UNCHANGED <<store, paused, currentProjectId, isPlaying, mediaEvents, manager,
                   drawing, panel, timers, queue, toast>>
    /\ Silent

\* VideoHandler.prevFrame / nextFrame (one frame is one position)
StepFrame(dir) ==
    /\ UserInput
    /\ UNCHANGED standalone
    /\ UNCHANGED sidebar
    /\ currentProjectId # Null
    /\ currentTime + dir \in Times
    /\ paused' = TRUE
    /\ mediaEvents' = PauseEvents
    /\ currentTime' = currentTime + dir
    /\ UNCHANGED <<store, currentProjectId, isPlaying, manager, drawing, panel, timers,
                   queue, toast>>
    /\ Silent

\* ----------------------------------------------------------------- capture
\* the capture without its video.pause()
PauseVideoMissing == paused

\* VideoHandler.video.pause() in captureSnapshotWithComment: video.paused after it
PauseVideo == TRUE

\* captureSnapshotWithComment up to `await Storage.addSnapshot`, on behalf of
\* `who`; the tag and hours handlers have paused the video before they call it
CaptureSnapshotWithComment(q, initialComment, initialTags, initialTagHours, who) ==
    IF currentProjectId = Null
    THEN /\ toast' = "No video loaded"
         /\ queue' = q
         /\ UNCHANGED <<store, paused, mediaEvents, playCapture>>
    ELSE /\ paused' = (who # "comment" \/ PauseVideo)
         /\ mediaEvents' = IF paused' = paused THEN mediaEvents
                           ELSE Append(mediaEvents, "pause")
         /\ db' = AddSnapshot([projectId |-> currentProjectId, timestamp |-> currentTime,
                               comment |-> initialComment, tags |-> Dedupe(initialTags),
                               tagHours |-> initialTagHours])
         /\ nextId' = nextId + 1
         /\ queue' = Append(q, Cont("captureSnapshotWithComment", nextId, NoSnapshot,
                                    Null, 0, who, NoUpdates))
         /\ playCapture' = (playCapture \/ ~paused)
         /\ UNCHANGED <<projects, toast>>

\* the comment box receives input: handleCommentInput up to its first await
TypeComment(c, d) ==
    /\ UserInput
    /\ UNCHANGED standalone
    /\ UNCHANGED sidebar
    /\ c # comment
    /\ comment' = c
    /\ Edited
    /\ burstWrites' = BurstAfterEdit(currentSnapshotId)
    /\ NoWrite
    /\ UNCHANGED <<store, video, manager, drawing, tagActive, hoursValue, dtTimer, toast,
                   lastDraw, toggledOff, retoggle, playCapture>>
    /\ IF currentProjectId = Null THEN UNCHANGED <<smTimer, queue>>
       ELSE IF currentSnapshotId # Null \/ quickCommentSnapshotId # Null
       THEN /\ smTimer' = IF currentSnapshotId = Null THEN smTimer ELSE d
            /\ UNCHANGED queue
       ELSE IF isCreatingSnapshot THEN UNCHANGED <<smTimer, queue>>
       ELSE /\ CanSuspend
            /\ c = 0 \/ CanCreate
            /\ queue' = Append(queue, Cont("handleCommentInput",
                                           FindSnapshotAtTime(currentTime), NoSnapshot,
                                           Null, c, "", NoUpdates))
            /\ UNCHANGED smTimer

\* handleCommentInput after `await this.findSnapshotAtTime(currentTime)`
ResumeHandleCommentInput ==
    /\ UNCHANGED inputs
    /\ UNCHANGED standalone
    /\ UNCHANGED sidebar
    /\ queue # <<>> /\ Head(queue).k = "handleCommentInput"
    /\ LET h == Head(queue) IN
       IF h.id # Null
       THEN /\ currentSnapshotId' = h.id
            /\ quickCommentSnapshotId' = h.id
            /\ queue' = Append(Tail(queue), Cont("enterInlineEditMode", h.id,
                                                 GetSnapshot(h.id), Null, 0, "", NoUpdates))
            /\ UNCHANGED <<store, paused, mediaEvents, isCreatingSnapshot, toast, playCapture>>
       ELSE IF h.txt > 0
       THEN /\ isCreatingSnapshot' = (currentProjectId # Null)
            /\ CaptureSnapshotWithComment(Tail(queue), h.txt, <<>>, NoHours, "comment")
            /\ UNCHANGED <<currentSnapshotId, quickCommentSnapshotId>>
       ELSE /\ queue' = Tail(queue)
            /\ UNCHANGED <<store, paused, mediaEvents, currentSnapshotId,
                           quickCommentSnapshotId, isCreatingSnapshot, toast, playCapture>>
    /\ UNCHANGED <<currentTime, currentProjectId, isPlaying, snapshots, drawing, panel, timers>>
    /\ NoWrite /\ NotEdited
    /\ UNCHANGED <<lastDraw, toggledOff, retoggle, burstWrites>>

\* captureSnapshotWithComment after `await Storage.addSnapshot`
ResumeCaptureAdd ==
    /\ UNCHANGED inputs
    /\ UNCHANGED standalone
    /\ UNCHANGED sidebar
    /\ queue # <<>> /\ Head(queue).k = "captureSnapshotWithComment"
    /\ LET h == Head(queue) IN
       /\ quickCommentSnapshotId' = h.id
       /\ currentSnapshotId' = h.id
       /\ queue' = Append(Tail(queue), Cont("captureSnapshotWithComment2", h.id,
                                            GetSnapshot(h.id), Null, 0, h.who, NoUpdates))
    /\ UNCHANGED <<store, video, isCreatingSnapshot, snapshots, drawing, panel, timers, toast>>
    /\ Silent

\* captureSnapshotWithComment after `await Storage.getSnapshot`, then the rest
\* of the handler that awaited it.  enterInlineEditMode(id, imageData, null,
\* true) runs to its first await inside.
ResumeCaptureGet(d) ==
    /\ UNCHANGED inputs
    /\ UNCHANGED standalone
    /\ queue # <<>> /\ Head(queue).k = "captureSnapshotWithComment2"
    /\ LET h == Head(queue) IN
       /\ snapshots' = Append(snapshots, Entry(h.id, h.snap))
       /\ cards' = IF h.snap = NoSnapshot THEN cards
                   ELSE SortSnapshotsByTimecode(AddSnapshotToList(h.id, h.snap))
       /\ markers' = IF h.snap = NoSnapshot THEN markers ELSE markers \cup {h.id}
       /\ count' = IF h.snap = NoSnapshot THEN count ELSE UpdateSnapshotCount(cards')
       /\ IF h.snap = NoSnapshot
          THEN \* addSnapshotToList(undefined) throws: the handler ends here
               /\ queue' = Tail(queue)
               /\ UNCHANGED <<currentSnapshotId, isCreatingSnapshot, smTimer>>
          ELSE LET q1 == Append(Tail(queue), Cont("loadSnapshotDataInline", h.id,
                                   GetSnapshot(h.id), Null, 0, "preserve", NoUpdates))
               IN /\ currentSnapshotId' = h.id
                  /\ isCreatingSnapshot' = IF h.who = "comment" THEN FALSE
                                           ELSE isCreatingSnapshot
                  /\ smTimer' = IF h.who = "hours" THEN d
                                ELSE IF h.who = "comment" THEN smTimer ELSE NoTimer
                  /\ queue' = IF h.who \in {"tag", "blur"}
                              THEN SaveInlineEdit(q1, h.id, DoSaveFabricData(h.id, activeSnapshotId))
                              ELSE q1
    /\ UNCHANGED <<store, video, quickCommentSnapshotId, drawing, panel, dtTimer, toast>>
    /\ Silent

\* enterInlineEditMode(id) after `await Storage.getSnapshot`
ResumeEnterInlineEditMode ==
    /\ UNCHANGED inputs
    /\ UNCHANGED standalone
    /\ UNCHANGED sidebar
    /\ queue # <<>> /\ Head(queue).k = "enterInlineEditMode"
    /\ LET h == Head(queue) IN
       IF h.snap = NoSnapshot
       THEN /\ queue' = Tail(queue)
            /\ UNCHANGED currentSnapshotId
       ELSE /\ currentSnapshotId' = h.id
            /\ queue' = Append(Tail(queue), Cont("loadSnapshotDataInline", h.id,
                                   GetSnapshot(h.id), h.snap.fabricData, 0, "load", NoUpdates))
    /\ UNCHANGED <<store, video, quickCommentSnapshotId, isCreatingSnapshot, snapshots,
                   drawing, panel, timers, toast>>
    /\ Silent

\* enterInlineEditMode after `await this.loadSnapshotDataInline`: the panels
\* are loaded, then DrawingTool.enterEditMode(snapshotId, imageData, fabricData)
ResumeLoadSnapshotDataInline ==
    /\ UNCHANGED inputs
    /\ UNCHANGED standalone
    /\ UNCHANGED sidebar
    /\ queue # <<>> /\ Head(queue).k = "loadSnapshotDataInline"
    /\ LET h == Head(queue) IN
       /\ queue' = Tail(queue)
       /\ IF h.snap = NoSnapshot THEN UNCHANGED <<panel, lastEdit>>
          ELSE /\ tagActive' = LoadedTags(h.snap)
               /\ hoursValue' = LoadedHours(h.snap)
               /\ comment' = IF h.who = "preserve" THEN comment ELSE h.snap.comment
               /\ lastEdit' = NoEdit
       /\ activeSnapshotId' = h.id
       /\ canvasReady' = FALSE
       /\ paused' = TRUE
       /\ mediaEvents' = PauseEvents
       /\ overlay' = [mode |-> "edit", fab |-> h.fab, flow |-> 0]
    /\ UNCHANGED <<store, currentTime, currentProjectId, isPlaying, manager, canvasObjs,
                   editing, flows, timers, toast>>
    /\ NoWrite
    /\ UNCHANGED <<sinceEdit, lastDraw, playCapture, burstWrites>>
    /\ UNCHANGED toggledOff /\ retoggle' = NoRetoggle

\* ------------------------------------------------------------------- saves
\* tempCanvas.toDataURL: the frame with the canvas (n objects) drawn over it
Composite(n) == 10 + n

\* a doSave that stores nothing
SkipSave(q) == q

\* doSave (the body of the SnapshotManager timeout, or called at once)
DoSave(q) == SaveInlineEdit(q, currentSnapshotId,
                            DoSaveFabricData(currentSnapshotId, activeSnapshotId))

\* this.autoSaveTimeout of SnapshotManager.triggerAutoSave fires
SmTimerFires ==
    /\ UNCHANGED inputs
    /\ UNCHANGED standalone
    /\ UNCHANGED sidebar
    /\ smTimer = 0
    /\ smTimer' = NoTimer
    /\ queue' = DoSave(queue)
    /\ UNCHANGED <<store, video, manager, drawing, panel, dtTimer, toast>>
    /\ Silent

\* this.autoSaveTimeout of DrawingTool.autoSave fires
DtTimerFires ==
    /\ UNCHANGED inputs
    /\ UNCHANGED standalone
    /\ UNCHANGED sidebar
    /\ dtTimer = 0
    /\ dtTimer' = NoTimer
    /\ queue' = SaveInlineEdit(queue, activeSnapshotId, GetCanvasData)
    /\ UNCHANGED <<store, video, manager, drawing, panel, smTimer, toast>>
    /\ Silent

\* `await Storage.updateSnapshot(snapshotId, updates)`: the request succeeds
\* (ok) or is rejected; a rejection ends saveInlineEdit and its caller
UpdateStorage(id, updates, ok) ==
    /\ ok \/ persistFailures < MaxFailures
    /\ db' = IF ok THEN UpdateSnapshot(id, updates) ELSE db
    /\ wrote' = IF ok /\ id \in DOMAIN db THEN id ELSE Null
    /\ persistFailures' = IF ok THEN persistFailures ELSE persistFailures + 1
    /\ burstWrites' = IF burstWrites >= 0 /\ id = lastEdit.id /\ burstWrites < 2
                      THEN burstWrites + 1 ELSE burstWrites
    /\ toggledOff' = IF wrote' # Null /\ wrote' = toggledOff[1] THEN NoToggle ELSE toggledOff
    /\ UNCHANGED retoggle
    /\ UNCHANGED <<projects, nextId>>

\* saveInlineEdit after `await Storage.getSnapshot`: the panels are read
ResumeSaveInlineEdit(ok) ==
    /\ UNCHANGED inputs
    /\ UNCHANGED standalone
    /\ UNCHANGED sidebar
    /\ queue # <<>> /\ Head(queue).k = "saveInlineEdit"
    /\ LET h == Head(queue)
           updates == [comment |-> comment, tags |-> PanelTags, tagHours |-> PanelTagHours,
                       fabricData |-> h.fab, markedUpImage |-> Undefined]
       IN IF h.snap = NoSnapshot
          THEN /\ ok
               /\ queue' = Tail(queue)
               /\ UNCHANGED <<store, toggledOff, retoggle, burstWrites>> /\ NoWrite
          ELSE IF h.fab # Undefined /\ h.fab # Null /\ canvas
          THEN /\ ok
               /\ queue' = Append(Tail(queue), Cont("saveInlineEdit2", h.id,
                                      GetSnapshot(h.id), h.fab, h.txt, "", updates))
               /\ UNCHANGED <<store, toggledOff, retoggle, burstWrites>> /\ NoWrite
          ELSE /\ queue' = Tail(queue)
               /\ UpdateStorage(h.id, updates, ok)
    /\ UNCHANGED <<video, manager, drawing, panel, timers, toast>>
    /\ NotEdited
    /\ UNCHANGED <<lastDraw, playCapture>>

\* saveInlineEdit after the second read and the two image loads
ResumeSaveInlineEdit2(ok) ==
    /\ UNCHANGED inputs
    /\ UNCHANGED standalone
    /\ UNCHANGED sidebar
    /\ queue # <<>> /\ Head(queue).k = "saveInlineEdit2"
    /\ LET h == Head(queue)
           updates == [h.upd EXCEPT !.markedUpImage =
                          IF h.snap = NoSnapshot THEN Undefined ELSE Composite(canvasObjs)]
       IN /\ queue' = Tail(queue)
          /\ UpdateStorage(h.id, updates, ok)
    /\ UNCHANGED <<video, manager, drawing, panel, timers, toast>>
    /\ NotEdited
    /\ UNCHANGED <<lastDraw, playCapture>>

\* ------------------------------------------------------------ tags and hours
\* an edit that is saved at once ends the burst of debounced edits
BurstVoid == IF sinceEdit < 0 THEN burstWrites ELSE -1

\* click on a .tag-btn of the inline panel
ClickTag(t) ==
    /\ UserInput
    /\ UNCHANGED standalone
    /\ UNCHANGED sidebar
    /\ CanSuspend
    /\ tagActive' = IF t \in tagActive THEN tagActive \ {t} ELSE tagActive \cup {t}
    /\ Edited
    /\ burstWrites' = BurstVoid
    /\ toggledOff' = IF t \in tagActive /\ currentSnapshotId # Null
                     THEN <<currentSnapshotId, t>>
                     ELSE IF toggledOff[2] = t THEN NoToggle ELSE toggledOff
    /\ retoggle' = IF t \in tagActive /\ currentSnapshotId # Null /\ HasHours(t)
                   THEN <<currentSnapshotId, t, "off">>
                   ELSE IF t \notin tagActive /\ retoggle = <<currentSnapshotId, t, "off">>
                   THEN <<currentSnapshotId, t, "on">>
                   ELSE IF retoggle[2] = t THEN NoRetoggle ELSE retoggle
    /\ NoWrite
    /\ IF currentSnapshotId = Null
       THEN /\ currentProjectId = Null \/ CanCreate
            /\ CaptureSnapshotWithComment(queue, 0, InitialTags(tagActive'),
                                          InitialTagHours(hoursValue), "tag")
            /\ UNCHANGED smTimer
       ELSE /\ smTimer' = NoTimer
            /\ queue' = DoSave(queue)
            /\ UNCHANGED <<store, paused, mediaEvents, toast, playCapture>>
    /\ UNCHANGED <<currentTime, currentProjectId, isPlaying, manager, drawing, comment,
                   hoursValue, dtTimer, lastDraw>>

\* focusin on a .tag-hours-input: the tag button becomes active (visual only)
FocusHours(t) ==
    /\ UserInput
    /\ UNCHANGED standalone
    /\ UNCHANGED sidebar
    /\ t \notin tagActive
    /\ tagActive' = tagActive \cup {t}
    /\ Edited
    /\ burstWrites' = BurstVoid
    /\ toggledOff' = IF toggledOff[2] = t THEN NoToggle ELSE toggledOff
    /\ retoggle' = IF retoggle[2] = t THEN NoRetoggle ELSE retoggle
    /\ NoWrite
    /\ UNCHANGED <<store, video, manager, drawing, comment, hoursValue, timers, queue,
                   toast, lastDraw, playCapture>>

\* input on a .tag-hours-input
TypeHours(t, v, d) ==
    /\ UserInput
    /\ UNCHANGED standalone
    /\ UNCHANGED sidebar
    /\ v # hoursValue[t]
    /\ CanSuspend
    /\ hoursValue' = [hoursValue EXCEPT ![t] = v]
    /\ tagActive' = IF v # "" THEN tagActive \cup {t} ELSE tagActive
    /\ Edited
    /\ burstWrites' = BurstAfterEdit(currentSnapshotId)
    /\ toggledOff' = IF toggledOff[2] = t /\ v # "" THEN NoToggle ELSE toggledOff
    /\ retoggle' = IF retoggle[2] = t THEN NoRetoggle ELSE retoggle
    /\ NoWrite
    /\ IF currentSnapshotId = Null /\ v # ""
       THEN /\ currentProjectId = Null \/ CanCreate
            /\ CaptureSnapshotWithComment(queue, 0, InitialTags(tagActive'),
                                          InitialTagHours(hoursValue'), "hours")
            /\ UNCHANGED smTimer
       ELSE /\ paused' = IF currentSnapshotId = Null THEN TRUE ELSE paused
            /\ mediaEvents' = IF currentSnapshotId = Null THEN PauseEvents ELSE mediaEvents
            /\ smTimer' = IF currentSnapshotId = Null THEN smTimer ELSE d
            /\ UNCHANGED <<store, queue, toast, playCapture>>
    /\ UNCHANGED <<currentTime, currentProjectId, isPlaying, manager, drawing, comment,
                   dtTimer, lastDraw>>

\* focusout of a .tag-hours-input
BlurHours(t) ==
    /\ UserInput
    /\ UNCHANGED standalone
    /\ UNCHANGED sidebar
    /\ CanSuspend
    /\ NoWrite /\ NotEdited
    /\ burstWrites' = BurstVoid
    /\ IF currentSnapshotId = Null /\ hoursValue[t] # ""
       THEN /\ currentProjectId = Null \/ CanCreate
            /\ tagActive' = tagActive \cup {t}
            /\ CaptureSnapshotWithComment(queue, 0, InitialTags(tagActive'),
                                          InitialTagHours(hoursValue), "blur")
            /\ UNCHANGED smTimer
       ELSE IF currentSnapshotId = Null
       THEN /\ ~paused
            /\ paused' = TRUE
            /\ mediaEvents' = PauseEvents
            /\ UNCHANGED <<store, tagActive, smTimer, queue, toast, playCapture>>
       ELSE /\ smTimer' = NoTimer
            /\ queue' = DoSave(queue)
            /\ UNCHANGED <<store, paused, mediaEvents, tagActive, toast, playCapture>>
    /\ UNCHANGED <<currentTime, currentProjectId, isPlaying, manager, drawing, comment,
                   hoursValue, dtTimer, lastDraw, toggledOff, retoggle>>

\* ----------------------------------------------------------------- drawing
AllTools == DrawingTools \cup {"select", "eraser"}

\* DrawingTool.autoSave: (re)arms the DrawingTool timeout
AutoSave(act, d) == IF act = Null THEN dtTimer ELSE d

\* mousedown on .video-wrapper (capture phase), with `tool` selected; on an
\* editable canvas Fabric's own handlers then add the shape
MouseDown(tool, d) ==
    /\ UserInput
    /\ UNCHANGED standalone
    /\ UNCHANGED sidebar
    /\ NoWrite
    /\ UNCHANGED <<projects, video, isCreatingSnapshot, snapshots, currentSnapshotId,
                   quickCommentSnapshotId, editing, panel, smTimer, toggledOff, retoggle, playCapture>>
    /\ IF tool \notin DrawingTools \/ ~paused
       THEN /\ UNCHANGED <<db, nextId, drawing, dtTimer, queue, toast, lastDraw, burstWrites>>
            /\ NotEdited
       ELSE IF ~canvas \/ activeSnapshotId = Null
       THEN \* SnapshotManager.captureSnapshotSync, then enterEditMode(tempId, image, null)
            /\ NotEdited
            /\ IF currentProjectId = Null
               THEN /\ toast' = "No video loaded"
                    /\ UNCHANGED <<db, nextId, drawing, dtTimer, queue, lastDraw, burstWrites>>
               ELSE LET f == Len(flows) + 1 IN
                    /\ f <= MaxDraws /\ CanCreate /\ CanSuspend
                    /\ db' = AddSnapshot([projectId |-> currentProjectId,
                                          timestamp |-> currentTime, comment |-> 0,
                                          tags |-> <<>>, tagHours |-> NoHours])
                    /\ nextId' = nextId + 1
                    /\ queue' = Append(queue, Cont("captureSnapshotSync", nextId, NoSnapshot,
                                                   Null, f, "", NoUpdates))
                    /\ flows' = Append(flows, [ready |-> FALSE, realId |-> Null])
                    /\ activeSnapshotId' = TempId(f)
                    /\ canvasReady' = FALSE
                    /\ overlay' = [mode |-> "edit", fab |-> Null, flow |-> f]
                    /\ UNCHANGED <<canvasObjs, dtTimer, toast, lastDraw, burstWrites>>
       ELSE /\ editing /\ canvasReady /\ canvasObjs < MaxObjs
            /\ canvasObjs' = canvasObjs + 1
            /\ lastDraw' = activeSnapshotId
            /\ dtTimer' = AutoSave(activeSnapshotId, d)
            /\ Edited
            /\ burstWrites' = BurstAfterEdit(currentSnapshotId)
            /\ UNCHANGED <<db, nextId, activeSnapshotId, canvasReady, overlay, flows,
                           queue, toast>>

\* click on a canvas object with the eraser tool
Eraser(d) ==
    /\ UserInput
    /\ UNCHANGED standalone
    /\ UNCHANGED sidebar
    /\ editing /\ canvasReady /\ canvasObjs > 0
    /\ canvasObjs' = canvasObjs - 1
    /\ lastDraw' = activeSnapshotId
    /\ dtTimer' = AutoSave(activeSnapshotId, d)
    /\ Edited
    /\ burstWrites' = BurstAfterEdit(currentSnapshotId)
    /\ NoWrite
    /\ UNCHANGED <<store, video, manager, activeSnapshotId, canvasReady, editing, overlay,
                   flows, panel, smTimer, queue, toast, toggledOff, retoggle, playCapture>>

\* savePromise.then(realId => ...) of the draw-first mousedown handler
ThenActive(f, realId) == IF activeSnapshotId = TempId(f) THEN realId ELSE activeSnapshotId

\* #snapshotOverlay fires onload (image decode and animation frame included).
\* Edit mode: the canvas is cleared, the stored markups are loaded, drawing is
\* enabled; a draw-first handler waiting on canvasReadyPromise resumes and
\* starts its first shape.  Display mode: the markups are shown read-only.
OverlayLoaded(d) ==
    /\ UNCHANGED inputs
    /\ UNCHANGED standalone
    /\ UNCHANGED sidebar
    /\ overlay.mode # "none"
    /\ overlay' = NoOverlay
    /\ NoWrite
    /\ UNCHANGED <<store, video, quickCommentSnapshotId, isCreatingSnapshot, snapshots,
                   panel, smTimer, queue, toast, toggledOff, retoggle, playCapture>>
    /\ IF overlay.mode = "display"
       THEN /\ canvasObjs' = overlay.fab
            /\ lastDraw' = Null
            /\ NotEdited
            /\ UNCHANGED <<currentSnapshotId, activeSnapshotId, canvasReady, editing, flows,
                           dtTimer, burstWrites>>
       ELSE IF overlay.flow = 0
       THEN /\ canvasObjs' = overlay.fab
            /\ lastDraw' = Null
            /\ editing' = TRUE
            /\ canvasReady' = TRUE
            /\ NotEdited
            /\ UNCHANGED <<currentSnapshotId, activeSnapshotId, flows, dtTimer, burstWrites>>
       ELSE LET f == overlay.flow
                realId == flows[f].realId
            IN /\ editing' = TRUE
               /\ canvasReady' = TRUE
               /\ flows' = [flows EXCEPT ![f].ready = TRUE]
               /\ activeSnapshotId' = IF realId = Null THEN activeSnapshotId
                                      ELSE ThenActive(f, realId)
               /\ currentSnapshotId' = IF realId = Null THEN currentSnapshotId ELSE realId
               /\ canvasObjs' = 1   \* the first shape, on the cleared canvas
               /\ lastDraw' = activeSnapshotId'
               /\ dtTimer' = AutoSave(activeSnapshotId', d)
               /\ lastEdit' = [id |-> currentSnapshotId', at |-> currentTime]
               /\ sinceEdit' = IF sinceEdit < 0 THEN sinceEdit ELSE 0
               /\ burstWrites' = BurstVoid

\* the background save of captureSnapshotSync after `await Storage.addSnapshot`
ResumeSyncAdd ==
    /\ UNCHANGED inputs
    /\ UNCHANGED standalone
    /\ UNCHANGED sidebar
    /\ queue # <<>> /\ Head(queue).k = "captureSnapshotSync"
    /\ LET h == Head(queue) IN
       /\ quickCommentSnapshotId' = h.id
       /\ currentSnapshotId' = h.id
       /\ queue' = Append(Tail(queue), Cont("captureSnapshotSync2", h.id, GetSnapshot(h.id),
                                            Null, h.txt, "", NoUpdates))
    /\ UNCHANGED <<store, video, isCreatingSnapshot, snapshots, drawing, panel, timers, toast>>
    /\ Silent

\* the background save after `await Storage.getSnapshot`; savePromise resolves
\* and the handler's then-callback runs if it has been registered
ResumeSyncGet ==
    /\ UNCHANGED inputs
    /\ UNCHANGED standalone
    /\ queue # <<>> /\ Head(queue).k = "captureSnapshotSync2"
    /\ LET h == Head(queue)
           f == h.txt
       IN /\ queue' = Tail(queue)
          /\ snapshots' = Append(snapshots, Entry(h.id, h.snap))
          /\ cards' = IF h.snap = NoSnapshot THEN cards
                      ELSE SortSnapshotsByTimecode(AddSnapshotToList(h.id, h.snap))
          /\ markers' = IF h.snap = NoSnapshot THEN markers ELSE markers \cup {h.id}
          /\ count' = IF h.snap = NoSnapshot THEN count ELSE UpdateSnapshotCount(cards')
          /\ IF h.snap = NoSnapshot
             THEN UNCHANGED <<flows, activeSnapshotId, currentSnapshotId, lastDraw>>
             ELSE /\ flows' = [flows EXCEPT ![f].realId = h.id]
                  /\ IF flows[f].ready
                     THEN /\ activeSnapshotId' = ThenActive(f, h.id)
                          /\ currentSnapshotId' = h.id
                          /\ lastDraw' = IF lastDraw = TempId(f) /\ activeSnapshotId = TempId(f)
                                         THEN h.id ELSE lastDraw
                     ELSE UNCHANGED <<activeSnapshotId, currentSnapshotId, lastDraw>>
    /\ UNCHANGED <<store, video, quickCommentSnapshotId, isCreatingSnapshot, canvasObjs,
                   canvasReady, editing, overlay, panel, timers, toast>>
    /\ NoWrite /\ NotEdited
    /\ UNCHANGED <<toggledOff, retoggle, playCapture, burstWrites>>

\* ------------------------------------------------------- cards and navigation
\* click on a snapshot card: openSnapshotInline up to `await Storage.getSnapshot`
ClickCard(id) ==
    /\ UserInput
    /\ UNCHANGED standalone
    /\ UNCHANGED sidebar
    /\ id \in Cards
    /\ CanSuspend
    /\ queue' = Append(queue, Cont("openSnapshotInline", id, GetSnapshot(id), Null, 0, "",
                                   NoUpdates))
    /\ UNCHANGED <<store, video, manager, drawing, panel, timers, toast>>
    /\ Silent

\* openSnapshotInline after the read; enterInlineEditMode(id, image, fabricData)
\* runs to its first await inside
ResumeOpenSnapshotInline ==
    /\ UNCHANGED inputs
    /\ UNCHANGED standalone
    /\ UNCHANGED sidebar
    /\ queue # <<>> /\ Head(queue).k = "openSnapshotInline"
    /\ LET h == Head(queue) IN
       IF h.snap = NoSnapshot
       THEN /\ queue' = Tail(queue)
            /\ UNCHANGED <<paused, currentTime, mediaEvents, currentSnapshotId,
                           quickCommentSnapshotId>>
       ELSE /\ currentTime' = h.snap.timestamp
            /\ paused' = TRUE
            /\ mediaEvents' = PauseEvents
            /\ currentSnapshotId' = h.id
            /\ quickCommentSnapshotId' = h.id
            /\ queue' = Append(Tail(queue), Cont("loadSnapshotDataInline", h.id,
                                   GetSnapshot(h.id), h.snap.fabricData, 0, "load", NoUpdates))
    /\ UNCHANGED <<store, currentProjectId, isPlaying, isCreatingSnapshot, snapshots,
                   drawing, panel, timers, toast>>
    /\ Silent

\* [...this.snapshots].sort((a, b) => a.timestamp - b.timestamp): position of
\* entry i in the sorted copy (the sort is stable)
Rank(i) ==
    Cardinality({j \in DOMAIN snapshots :
                    \/ snapshots[j].timestamp < snapshots[i].timestamp
                    \/ snapshots[j].timestamp = snapshots[i].timestamp /\ j < i}) + 1

Sorted(r) == snapshots[CHOOSE i \in DOMAIN snapshots : Rank(i) = r]

CurrentIndex ==
    LET hits == {r \in DOMAIN snapshots : Sorted(r).id = currentSnapshotId}
    IN IF hits = {} THEN 0 ELSE CHOOSE r \in hits : \A o \in hits : r <= o

\* a navigation that always selects the end of the timeline it starts from
NavigateFromEnd(dir) == IF dir = 1 THEN 1 ELSE Len(snapshots)

\* rank of the snapshot ArrowDown (dir = 1) or ArrowUp (dir = -1) selects, or 0
NavigateTarget(dir) ==
    IF currentSnapshotId = Null
    THEN (IF dir = 1 THEN 1 ELSE Len(snapshots))
    ELSE IF CurrentIndex = 0 THEN 0
    ELSE IF CurrentIndex + dir \in DOMAIN snapshots THEN CurrentIndex + dir ELSE 0

\* navigateToNextSnapshot / navigateToPreviousSnapshot up to the await in
\* enterInlineEditMode(id)
Navigate(dir) ==
    /\ UserInput
    /\ UNCHANGED standalone
    /\ UNCHANGED sidebar
    /\ snapshots # <<>> /\ ~HasUndefined(snapshots)
    /\ NavigateTarget(dir) # 0
    /\ CanSuspend
    /\ LET target == Sorted(NavigateTarget(dir)) IN
       /\ currentTime' = target.timestamp
       /\ queue' = Append(queue, Cont("enterInlineEditMode", target.id,
                                      GetSnapshot(target.id), Null, 0, "", NoUpdates))
    /\ UNCHANGED <<store, paused, currentProjectId, isPlaying, mediaEvents, manager,
                   drawing, panel, timers, toast>>
    /\ Silent

\* ---------------------------------------------------------------- deletion
\* deleteSnapshotById(id, true) up to `await Storage.deleteSnapshot`
DeleteSnapshotByIdCall(id) ==
    /\ UNCHANGED sidebar
    /\ id \in Cards
    /\ CanSuspend
    /\ IF currentSnapshotId = id
       THEN /\ currentSnapshotId' = Null
            /\ quickCommentSnapshotId' = Null
            /\ activeSnapshotId' = Null
            /\ canvasReady' = FALSE
            /\ overlay' = NoOverlay
            /\ editing' = FALSE
            /\ canvasObjs' = 0
            /\ lastDraw' = Null
       ELSE UNCHANGED <<currentSnapshotId, quickCommentSnapshotId, activeSnapshotId,
                        canvasReady, overlay, editing, canvasObjs, lastDraw>>
    /\ db' = DeleteSnapshot(id)
    /\ queue' = Append(queue, Cont("deleteSnapshotById", id, NoSnapshot, Null, 0,
                                   IF currentSnapshotId = id THEN "active" ELSE "",
                                   NoUpdates))
    /\ UNCHANGED <<projects, nextId, video, isCreatingSnapshot, snapshots, flows, panel,
                   timers, toast>>
    /\ NoWrite /\ NotEdited
    /\ UNCHANGED <<toggledOff, retoggle, playCapture, burstWrites>>

\* a completed hold on the delete button of card id
DeleteSnapshotById(id) ==
    /\ UserInput
    /\ UNCHANGED standalone
    /\ DeleteSnapshotByIdCall(id)

\* deleteSnapshotById after the delete: the card, the marker and the list entry
ResumeDeleteSnapshotById ==
    /\ UNCHANGED inputs
    /\ UNCHANGED standalone
    /\ queue # <<>> /\ Head(queue).k = "deleteSnapshotById"
    /\ LET h == Head(queue)
           throws == HasUndefined(snapshots)
       IN /\ queue' = Tail(queue)
          /\ cards' = SelectSeq(cards, LAMBDA c : c.id # h.id)
          /\ markers' = markers \ {h.id}
          /\ count' = UpdateSnapshotCount(cards')
          /\ snapshots' = IF throws THEN snapshots
                          ELSE SelectSeq(snapshots, LAMBDA e : e.id # h.id)
          /\ currentSnapshotId' = IF ~throws /\ currentSnapshotId = h.id THEN Null
                                  ELSE currentSnapshotId
    /\ UNCHANGED <<store, video, quickCommentSnapshotId, isCreatingSnapshot, drawing, panel,
                   timers, toast>>
    /\ Silent

\* confirmation of the delete-all modal: deleteAllSnapshots up to
\* `await Storage.getSnapshots`; upd carries the ids that are still to delete
DeleteAllSnapshots ==
    /\ UserInput
    /\ UNCHANGED standalone
    /\ UNCHANGED sidebar
    /\ currentProjectId # Null
    /\ CanSuspend
    /\ queue' = Append(queue, Cont("deleteAllSnapshots", currentProjectId, NoSnapshot, Null,
                                   0, "", GetSnapshotIds(currentProjectId)))
    /\ UNCHANGED <<store, video, manager, drawing, panel, timers, toast>>
    /\ Silent

\* deleteAllSnapshots inside its loop: the next `await Storage.deleteSnapshot`
ResumeDeleteAllSnapshots ==
    /\ UNCHANGED inputs
    /\ UNCHANGED standalone
    /\ UNCHANGED sidebar
    /\ queue # <<>> /\ Head(queue).k = "deleteAllSnapshots" /\ Head(queue).upd # <<>>
    /\ LET h == Head(queue) IN
       /\ db' = DeleteSnapshot(Head(h.upd))
       /\ queue' = Append(Tail(queue), [h EXCEPT !.upd = Tail(@)])
    /\ UNCHANGED <<projects, nextId, video, manager, drawing, panel, timers, toast>>
    /\ Silent

\* deleteAllSnapshots after its loop: the list, the cards and the count are
\* cleared; the elements of class "timeline-marker" are removed, which the
\* markers of addTimelineMarker (class "snapshot-marker") are not
ResumeDeleteAllSnapshots2 ==
    /\ UNCHANGED inputs
    /\ UNCHANGED standalone
    /\ queue # <<>> /\ Head(queue).k = "deleteAllSnapshots" /\ Head(queue).upd = <<>>
    /\ queue' = Tail(queue)
    /\ snapshots' = <<>>
    /\ currentSnapshotId' = Null
    /\ quickCommentSnapshotId' = Null
    /\ cards' = <<>>
    /\ count' = UpdateSnapshotCount(cards')
    /\ UNCHANGED markers
    /\ activeSnapshotId' = Null
    /\ canvasReady' = FALSE
    /\ overlay' = NoOverlay
    /\ editing' = FALSE
    /\ canvasObjs' = 0
    /\ lastDraw' = Null
    /\ toast' = "All snapshots deleted"
    /\ UNCHANGED <<store, video, isCreatingSnapshot, flows, panel, timers>>
    /\ NoWrite /\ NotEdited
    /\ UNCHANGED <<toggledOff, retoggle, playCapture, burstWrites>>

\* ProjectManager.deleteProject up to `await Storage.getProject`
DeleteProjectCall(p) ==
    /\ UNCHANGED sidebar
    /\ p \in projects
    /\ CanSuspend
    /\ queue' = Append(queue, Cont("deleteProject", p, NoSnapshot, Null, 0, "", NoUpdates))
    /\ UNCHANGED <<store, video, manager, drawing, panel, timers, toast>>
    /\ Silent

\* a completed hold on the delete button of project p's list entry
DeleteProject(p) ==
    /\ UserInput
    /\ UNCHANGED standalone
    /\ DeleteProjectCall(p)

\* ProjectManager.deleteProject: Storage.deleteProject is issued
ResumeDeleteProject ==
    /\ UNCHANGED inputs
    /\ UNCHANGED standalone
    /\ UNCHANGED sidebar
    /\ queue # <<>> /\ Head(queue).k = "deleteProject"
    /\ LET h == Head(queue) IN
       /\ projects' = projects \ {h.id}
       /\ db' = DeleteProjectSnapshots(h.id)
       /\ queue' = Append(Tail(queue), Cont("deleteProject2", h.id, NoSnapshot, Null, 0, "",
                                            NoUpdates))
    /\ UNCHANGED <<nextId, video, manager, drawing, panel, timers, toast>>
    /\ Silent

\* ProjectManager.deleteProject after the transaction: newProject() if current
ResumeDeleteProject2 ==
    /\ UNCHANGED inputs
    /\ UNCHANGED standalone
    /\ queue # <<>> /\ Head(queue).k = "deleteProject2"
    /\ LET h == Head(queue) IN
       /\ queue' = Tail(queue)
       /\ toast' = "Project deleted"
       /\ IF h.id = currentProjectId
          THEN /\ snapshots' = <<>>
               /\ cards' = <<>>
               /\ markers' = {}
               /\ count' = UpdateSnapshotCount(cards')
               /\ currentProjectId' = Null
               /\ paused' = TRUE
               /\ currentTime' = 0
          ELSE UNCHANGED <<snapshots, sidebar, currentProjectId, paused, currentTime>>
    /\ UNCHANGED <<store, isPlaying, mediaEvents, currentSnapshotId, quickCommentSnapshotId,
                   isCreatingSnapshot, drawing, panel, timers>>
    /\ Silent

\* -------------------------------------------------------------------- time
\* 100 ms pass; a timeout that is due fires before more time passes
Tick ==
    /\ UNCHANGED inputs
    /\ UNCHANGED standalone
    /\ UNCHANGED sidebar
    /\ sinceEdit >= 0
    /\ smTimer # 0 /\ dtTimer # 0
    /\ smTimer > 0 \/ dtTimer > 0 \/ sinceEdit < Debounce
    /\ smTimer' = IF smTimer > 0 THEN smTimer - 1 ELSE smTimer
    /\ dtTimer' = IF dtTimer > 0 THEN dtTimer - 1 ELSE dtTimer
    /\ sinceEdit' = IF sinceEdit < Debounce THEN sinceEdit + 1 ELSE sinceEdit
    /\ UNCHANGED <<store, video, manager, drawing, panel, queue, toast, wrote, lastEdit,
                   lastDraw, toggledOff, retoggle, persistFailures, playCapture, burstWrites>>

\* ----------------------------------------------------------- specification
\* continuations of the handlers that create, load and save snapshots
ResumeEdits(d, outcomes) ==
    \/ ResumeHandleCommentInput
    \/ ResumeCaptureAdd
    \/ ResumeCaptureGet(d)
    \/ ResumeEnterInlineEditMode
    \/ ResumeLoadSnapshotDataInline
    \/ ResumeSyncAdd
    \/ ResumeSyncGet
    \/ \E ok \in outcomes : ResumeSaveInlineEdit(ok)
    \/ \E ok \in outcomes : ResumeSaveInlineEdit2(ok)

\* continuations of the card, delete and project handlers
ResumeControls ==
    \/ ResumeOpenSnapshotInline
    \/ ResumeDeleteSnapshotById
    \/ ResumeDeleteAllSnapshots
    \/ ResumeDeleteAllSnapshots2
    \/ ResumeDeleteProject
    \/ ResumeDeleteProject2

Resume(d, outcomes) == ResumeEdits(d, outcomes) \/ ResumeControls

\* edits of the comment, the tags, the hours and the canvas, the overlay's
\* load and the timeouts; a timeout armed by these steps is due after d units
Edits(d) ==
    \/ \E c \in Texts : TypeComment(c, d)
    \/ \E t \in Tags : ClickTag(t)
    \/ \E t \in Tags : FocusHours(t)
    \/ \E t \in Tags, v \in HourValues : TypeHours(t, v, d)
    \/ \E t \in Tags : BlurHours(t)
    \/ \E tool \in AllTools : MouseDown(tool, d)
    \/ Eraser(d)
    \/ OverlayLoaded(d)
    \/ SmTimerFires
    \/ DtTimerFires

\* playback, seeking, the snapshot cards and the project list
Controls ==
    \/ TogglePlay
    \/ OnPlay
    \/ OnPause
    \/ \E t \in Times : Seek(t)
    \/ \E dir \in {-1, 1} : StepFrame(dir)
    \/ \E id \in 1..MaxId : ClickCard(id)
    \/ \E dir \in {-1, 1} : Navigate(dir)
    \/ \E id \in 1..MaxId : DeleteSnapshotById(id)
    \/ DeleteAllSnapshots
    \/ \E p \in {1, 2} : DeleteProject(p)

Events(d) == Edits(d) \/ Controls

\* the store accepts every write; timeouts fire after some delay
Next == Events(0) \/ Resume(0, {TRUE})

Spec == Init /\ [][Next]_vars

SpecStored == InitStored /\ [][Next]_vars

\* the store may reject a write (MaxFailures times)
NextFailing == Events(0) \/ Resume(0, BOOLEAN)

SpecFailing == Init /\ [][NextFailing]_vars

\* time is observed while a reloaded project is edited at one paused position:
\* a timeout is due Debounce units (300 ms) after it is armed
InitTimed == InitProgram(TRUE) /\ sinceEdit = Debounce /\ InitStandalone

NextTimed == Edits(Debounce) \/ ResumeEdits(Debounce, {TRUE}) \/ Tick

SpecTimed == InitTimed /\ [][NextTimed]_vars

\* ------------------------------------------------------------ Storage calls
\* the tag lists a caller may pass, duplicates included
TagLists == UNION {[1..n -> Tags] : n \in 0..MaxTags}

\* the store holds project 2's snapshot; snapshots of project 1 are added,
\* updated and read back through Storage
InitStorage == InitProgram(FALSE) /\ sinceEdit = -1 /\ InitStandalone

\* everything but the store and the results of the Storage calls
Program == <<projects, video, manager, drawing, panel, timers, queue, toast, history, inputs,
             sidebar, canvasWidth, canvasHeight, shape, extras>>

\* Storage.addSnapshot(snapshot) with snapshot.tags = tags
StorageAddSnapshot(tags) ==
    /\ nextId <= MaxRecords
    /\ db' = AddSnapshot([NoSnapshot EXCEPT !.projectId = 1, !.tags = tags])
    /\ nextId' = nextId + 1
    /\ passed' = [id |-> nextId, tags |-> tags]
    /\ UNCHANGED <<returned, Program>>

\* Storage.updateSnapshot(id, updates) with updates.tags = tags
StorageUpdateSnapshot(id, tags) ==
    /\ id \in DOMAIN db
    /\ db' = UpdateSnapshot(id, [comment |-> db[id].comment, tags |-> tags,
                                 tagHours |-> db[id].tagHours, fabricData |-> Undefined,
                                 markedUpImage |-> Undefined])
    /\ passed' = [id |-> id, tags |-> tags]
    /\ UNCHANGED <<nextId, returned, Program>>

\* Storage.getSnapshot(id)
StorageGetSnapshot(id) ==
    /\ id \in DOMAIN db
    /\ returned' = <<GetSnapshot(id)>>
    /\ UNCHANGED <<db, nextId, passed, Program>>

\* Storage.getSnapshots(projectId)
StorageGetSnapshots(p) ==
    /\ returned' = GetSnapshots(p)
    /\ UNCHANGED <<db, nextId, passed, Program>>

NextStorage ==
    \/ \E tags \in TagLists : StorageAddSnapshot(tags)
    \/ \E id \in 1..MaxRecords, tags \in TagLists : StorageUpdateSnapshot(id, tags)
    \/ \E id \in 1..MaxRecords : StorageGetSnapshot(id)
    \/ \E p \in {1, 2} : StorageGetSnapshots(p)

SpecStorage == InitStorage /\ [][NextStorage]_vars

\* ------------------------------------------------------------------ resize
\* display sizes of the video, and the places of a shape within them
Widths == {MaxWidth \div 3, MaxWidth \div 2, MaxWidth}
Heights == {MaxHeight \div 2, MaxHeight}

\* canvas.toJSON(): an object is serialised with its own left and top
ToJSON(sh) == [left |-> sh.left, top |-> sh.top]

\* canvas.loadFromJSON(json): the object is restored at the serialised left and top
LoadFromJSON(json, width, height) == [left |-> json.left, top |-> json.top]

\* window "resize" while the display has size w x h: DrawingTool.resizeCanvas
ResizeCanvas(w, h) ==
    /\ UNCHANGED inputs
    /\ UNCHANGED sidebar
    /\ canvas /\ activeSnapshotId # Null
    /\ IF \/ Abs(canvasWidth - w) > ResizeThreshold
          \/ Abs(canvasHeight - h) > ResizeThreshold
       THEN /\ canvasWidth' = w
            /\ canvasHeight' = h
            /\ shape' = LoadFromJSON(ToJSON(shape), w, h)
       ELSE UNCHANGED <<canvasWidth, canvasHeight, shape>>
    /\ UNCHANGED <<store, video, manager, drawing, panel, timers, queue, toast, history,
                   passed, returned, extras>>

\* the reloaded project is shown at some display size; snapshot 2's shape
\* lies somewhere in the frame
InitResize ==
    /\ InitProgram(TRUE) /\ sinceEdit = -1
    /\ InitExtras
    /\ passed = NoCall
    /\ returned = <<>>
    /\ canvasWidth \in Widths
    /\ canvasHeight \in Heights
    /\ shape \in [left : 0..canvasWidth, top : 0..canvasHeight]

\* snapshot 2 is opened for editing and the window is resized
NextResize ==
    \/ ClickCard(2)
    \/ ResumeOpenSnapshotInline
    \/ ResumeLoadSnapshotDataInline
    \/ OverlayLoaded(0)
    \/ \E w \in Widths, h \in Heights : ResizeCanvas(w, h)

SpecResize == InitResize /\ [][NextResize]_vars

\* ------------------------------------------------------------------ claims
CreationKinds == {"captureSnapshotWithComment", "captureSnapshotWithComment2",
                  "captureSnapshotSync", "captureSnapshotSync2"}

\* a snapshot has been added and the handler that added it has not finished
CreationInFlight == \E i \in DOMAIN queue : queue[i].k \in CreationKinds

\* C1: a markup action at a position where the project already has a snapshot
\* within the 0.1 s tolerance selects that snapshot instead of creating a
\* second one: with no creation in flight, a step adds a snapshot only where
\* findSnapshotAtTime finds none.
C1_SelectsExistingSnapshot ==
    [][(nextId' > nextId /\ ~CreationInFlight) => FindSnapshotAtTime(currentTime) = Null]_vars

\* C3: under every interleaving of two markup events at one paused position
\* exactly one snapshot is added: no step adds a snapshot at the position of a
\* snapshot of the same project whose creation is still in flight.
C3_OneCreationPerPosition ==
    [][nextId' > nextId =>
        \A i \in DOMAIN queue :
            (queue[i].k \in CreationKinds /\ queue[i].id \in DOMAIN db) =>
                ~(/\ db[queue[i].id].projectId = currentProjectId
                  /\ db[queue[i].id].timestamp = currentTime)]_vars

\* C2: an edit made at a position 0.1 s or more away from a snapshot's
\* timestamp is never stored in that snapshot: a write of the panels that
\* hold the last edit goes to a snapshot within the tolerance of the position
\* the edit was made at.
C2_EditStoredAtItsPosition ==
    [][(wrote' # Null /\ lastEdit.id = wrote') =>
        Abs(db[wrote'].timestamp - lastEdit.at) < Tolerance]_vars

\* C5: leaving the editing of a snapshot by play, by a card click or by
\* next/previous navigation while a debounced save is pending cancels the
\* timer and flushes the pending save for that snapshot first.
C5_LeavingFlushesPendingSave ==
    [][(/\ OnPlay \/ ResumeOpenSnapshotInline \/ ResumeEnterInlineEditMode
        /\ currentSnapshotId # Null
        /\ currentSnapshotId' # currentSnapshotId
        /\ (smTimer # NoTimer \/ dtTimer # NoTimer)) =>
            /\ smTimer' = NoTimer
            /\ dtTimer' = NoTimer
            /\ \E i \in DOMAIN queue' : /\ queue'[i].k = "saveInlineEdit"
                                        /\ queue'[i].id = currentSnapshotId]_vars

\* C6: no edit made to snapshot A is persisted into snapshot B after the
\* active id changed: a write that carries canvas data goes to the snapshot
\* the canvas content was drawn for (a stored snapshot, not a temporary id).
C6_NoEditOfAPersistedIntoB ==
    [][wrote' # Null =>
        LET h == Head(queue)
        IN (h.fab # Undefined /\ h.txt > Null) => h.txt = wrote']_vars

C9_NoOrphanedSnapshots == \A id \in DOMAIN db : db[id].projectId \in projects

\* C10: after a tag is toggled off on the active snapshot, the next persisted
\* state of that snapshot has neither the tag in tags nor an entry for it in
\* tagHours: the first write to the snapshot after the toggle stores neither.
C10_ToggledOffTagNotPersisted ==
    [][(wrote' # Null /\ wrote' = toggledOff[1]) =>
        /\ ~Has(db'[wrote'].tags, toggledOff[2])
        /\ toggledOff[2] \notin DOMAIN db'[wrote'].tagHours]_vars

\* C4: edits of the active snapshot that each arrive less than 300 ms after
\* the previous one result in exactly one Storage.updateSnapshot write for
\* that snapshot: once the burst is over (300 ms without an edit, no timeout
\* armed, no handler suspended) the snapshot has been written once.
C4_OneWritePerBurst ==
    (/\ sinceEdit = Debounce
     /\ burstWrites >= 0
     /\ Quiescent
     /\ lastEdit.id = currentSnapshotId
     /\ lastEdit.id \in DOMAIN db
     /\ currentProjectId # Null
     /\ lastDraw \in {Null, currentSnapshotId}) => burstWrites = 1

\* the tags of a stored record, as a set
TagSet(snapshot) == {snapshot.tags[i] : i \in DOMAIN snapshot.tags}

\* C12: in every reachable state of the store the keys of tagHours of every
\* snapshot are a subset of its tags, for records written by a creation from
\* a tag click or hours input as well as for records written by auto-save.
C12_HoursOnlyForTags ==
    \A id \in DOMAIN db : DOMAIN db[id].tagHours \subseteq TagSet(db[id])

\* C14: every tagHours value persisted by snapshot creation or auto-save is a
\* number strictly greater than zero; a blank, zero or negative hours field
\* produces no entry.
C14_PersistedHoursPositive ==
    \A id \in DOMAIN db : \A t \in DOMAIN db[id].tagHours : db[id].tagHours[t] > 0

\* C18: at most one snapshot is active for editing: when both
\* SnapshotManager.currentSnapshotId and DrawingTool.activeSnapshotId name a
\* stored snapshot, they name the same one.
C18_OneActiveSnapshot ==
    (currentSnapshotId > Null /\ activeSnapshotId > Null) =>
        currentSnapshotId = activeSnapshotId

\* the composite image of a record shows the shapes of its fabricData
Corresponds(snapshot) ==
    IF snapshot.fabricData = Null
    THEN snapshot.markedUpImage \in {Null, Composite(0)}
    ELSE snapshot.markedUpImage = Composite(snapshot.fabricData)

\* C19: a write that includes fabricData carries the composite regenerated
\* from the current scene, also when the last shape was removed: after a
\* write of the scene that is on the canvas, the stored markedUpImage
\* corresponds to the stored fabricData.
C19_CompositeFollowsFabricData ==
    [][(/\ wrote' # Null
        /\ Head(queue).fab # Undefined
        /\ Head(queue).fab = GetCanvasData) => Corresponds(db'[wrote'])]_vars

\* an auto-save has written the active snapshot while its panel held a zero or
\* negative hours value for an active tag: the tag is stored without hours
C14_ZeroHoursSaved ==
    /\ wrote # Null /\ wrote = currentSnapshotId
    /\ \E t \in tagActive : /\ hoursValue[t] \in {"0", "-2"}
                             /\ Has(db[wrote].tags, t)
                             /\ t \notin DOMAIN db[wrote].tagHours

\* C11: when a tag that has hours is toggled off and then on again on the
\* active snapshot, and no hours are entered in between, every write of that
\* snapshot stores the tag with no tagHours entry for it.
C11_RetoggledTagHasNoHours ==
    [][(/\ wrote' # Null
        /\ retoggle[3] = "on"
        /\ wrote' = retoggle[1]) =>
            /\ Has(db'[wrote'].tags, retoggle[2])
            /\ retoggle[2] \notin DOMAIN db'[wrote'].tagHours]_vars

\* C16: when deleteAllSnapshots completes for a project, the store holds no
\* snapshot of that project, no snapshot card and no timeline marker remains,
\* SnapshotManager.snapshots is empty, the count is 0 and no snapshot is active.
C16_BulkDeleteLeavesNothing ==
    [][(/\ queue # <<>>
        /\ Head(queue).k = "deleteAllSnapshots"
        /\ Head(queue).upd = <<>>
        /\ queue' = Tail(queue)) =>
            /\ \A id \in DOMAIN db' : db'[id].projectId # Head(queue).id
            /\ cards' = <<>>
            /\ markers' = {}
            /\ snapshots' = <<>>
            /\ count' = 0
            /\ currentSnapshotId' = Null
            /\ activeSnapshotId' = Null]_vars

\* C15: when deleteSnapshotById(S) completes, S is in the store no more, its
\* card, its marker and its entry of SnapshotManager.snapshots are removed,
\* the cards and markers of the other snapshots are as before, the count is
\* the number of remaining cards, and if S was the active snapshot when the
\* delete began, S is active no more (neither as SnapshotManager's current
\* snapshot nor as the snapshot bound to the drawing canvas).
C15_SingleDeleteRemovesOnlyS ==
    [][(/\ queue # <<>>
        /\ Head(queue).k = "deleteSnapshotById"
        /\ queue' = Tail(queue)) =>
            LET S == Head(queue).id IN
            /\ S \notin DOMAIN db'
            /\ cards' = SelectSeq(cards, LAMBDA c : c.id # S)
            /\ markers' = markers \ {S}
            /\ \A i \in DOMAIN snapshots' : snapshots'[i].id # S
            /\ \A id \in DOMAIN db : id \in DOMAIN db' /\ db'[id] = db[id]
            /\ count' = Len(cards')
            /\ Head(queue).who = "active" =>
                   currentSnapshotId' # S /\ activeSnapshotId' # S]_vars

\* C17: the snapshot cards are always listed in ascending timestamp order, and
\* cards of equal timestamp in the order in which they were inserted.
C17_CardsByTimecode ==
    \A i, j \in DOMAIN cards :
        i < j => \/ cards[i].timestamp < cards[j].timestamp
                 \/ /\ cards[i].timestamp = cards[j].timestamp
                    /\ cards[i].n < cards[j].n

\* a card that was inserted later is listed before a card inserted earlier
C17_LaterCardListedFirst ==
    \E i, j \in DOMAIN cards : i < j /\ cards[i].n > cards[j].n

NoDuplicates(tags) == \A i, j \in DOMAIN tags : tags[i] = tags[j] => i = j

\* C13: no stored snapshot that was written through Storage.addSnapshot or
\* Storage.updateSnapshot, and no snapshot returned by Storage.getSnapshot or
\* Storage.getSnapshots, has the same tag twice in its tag list.
C13_NoDuplicateTags ==
    /\ \A id \in DOMAIN db : NoDuplicates(db[id].tags)
    /\ \A i \in DOMAIN returned : NoDuplicates(returned[i].tags)

\* a tag list with a repeated tag was passed to the store, and the record it
\* was written to has been read back
C13_DuplicatesPassedAndReadBack ==
    /\ ~NoDuplicates(passed.tags)
    /\ passed.id \in DOMAIN db
    /\ returned # <<>>
    /\ \E i \in DOMAIN returned : returned[i] = GetSnapshot(passed.id)

\* C20: a resize of the display while a snapshot is edited keeps every shape
\* at the same relative place: left / width and top / height are unchanged.
C20_ResizeKeepsRelativePlace ==
    [][(/\ activeSnapshotId # Null
        /\ canvasObjs > 0
        /\ canvasWidth' # canvasWidth \/ canvasHeight' # canvasHeight) =>
            /\ shape'.left * canvasWidth = shape.left * canvasWidth'
            /\ shape'.top * canvasHeight = shape.top * canvasHeight']_vars

\* the handlers that look a snapshot up by id before they act on it
Lookups == {"saveInlineEdit", "openSnapshotInline", "enterInlineEditMode"}

\* C22: when saving, opening or entering edit mode finds that its snapshot id
\* is no longer in the store, the handler ends without changing the store and
\* a notification is shown to the user.
C22_StaleIdIsReported ==
    [][(/\ queue # <<>>
        /\ Head(queue).k \in Lookups
        /\ Head(queue).snap = NoSnapshot
        /\ queue' = Tail(queue)) =>
            /\ db' = db
            /\ toast' \notin {"", toast}]_vars

\* C28: while the video is playing and its play event has been handled, no
\* snapshot is active: SnapshotManager.currentSnapshotId and
\* DrawingTool.activeSnapshotId are null.
C28_NoActiveSnapshotWhilePlaying ==
    (~paused /\ isPlaying /\ mediaEvents = <<>>) =>
        currentSnapshotId = Null /\ activeSnapshotId = Null

\* C29: SnapshotManager.currentSnapshotId is null or the id of a stored
\* snapshot of the current project.
C29_CurrentSnapshotOfCurrentProject ==
    currentSnapshotId # Null =>
        /\ currentSnapshotId \in DOMAIN db
        /\ db[currentSnapshotId].projectId = currentProjectId

\* C25: a click on an inactive tag while the video is paused, a project is
\* loaded and no snapshot is active adds exactly one record to the store, at
\* the current position of the current project, whose tags contain the
\* clicked tag and whose tagHours hold the hours entered for the active tags;
\* when the add resolves, that snapshot becomes the current one.
C25_TagClickCreatesTaggedSnapshot ==
    [][/\ \A t \in Tags :
            (/\ ClickTag(t)
             /\ paused /\ currentProjectId # Null /\ currentSnapshotId = Null
             /\ t \notin tagActive) =>
                /\ DOMAIN db' = DOMAIN db \cup {nextId}
                /\ nextId \notin DOMAIN db
                /\ \A id \in DOMAIN db : db'[id] = db[id]
                /\ db'[nextId].projectId = currentProjectId
                /\ db'[nextId].timestamp = currentTime
                /\ Has(db'[nextId].tags, t)
                /\ \A u \in tagActive' : HasHours(u) =>
                       /\ u \in DOMAIN db'[nextId].tagHours
                       /\ db'[nextId].tagHours[u] = ParseFloat(hoursValue[u])
       /\ (ResumeCaptureAdd /\ Head(queue).who = "tag") =>
              currentSnapshotId' = Head(queue).id]_vars

\* a tag click has just created a tagged snapshot; its add has not resolved
C25_TagClickCreated ==
    /\ inputs = 1
    /\ queue # <<>>
    /\ Head(queue).k = "captureSnapshotWithComment" /\ Head(queue).who = "tag"
    /\ Head(queue).id \in DOMAIN db
    /\ db[Head(queue).id].tags # <<>>
    /\ db[Head(queue).id].timestamp = currentTime

\* C25 as stated, for a click on any tag button, active or not: the record
\* that the click adds has the clicked tag in its tags.
C25_AnyTagClickCreatesTaggedSnapshot ==
    [][\A t \in Tags :
          (/\ ClickTag(t)
           /\ paused /\ currentProjectId # Null /\ currentSnapshotId = Null) =>
              /\ DOMAIN db' = DOMAIN db \cup {nextId}
              /\ nextId \notin DOMAIN db
              /\ Has(db'[nextId].tags, t)]_vars

StoredC == [StoredB EXCEPT !.tags = <<"audio">>, !.tagHours = ("audio" :> 3)]

InitComment ==
    /\ projects = {1, 2}
    /\ db = (1 :> Other) @@ (2 :> StoredA) @@ (3 :> StoredC)
    /\ nextId = 4
    /\ snapshots = <<Entry(2, StoredA), Entry(3, StoredC)>>
    /\ cards = LoadedCards(GetSnapshotIds(1))
    /\ markers = {2, 3}
    /\ count = UpdateSnapshotCount(cards)
    /\ InitSession
    /\ sinceEdit = -1
    /\ InitStandalone

\* the user opens snapshot cards and types in the comment box, nothing else
NextComment ==
    \/ \E id \in 1..MaxId : ClickCard(id)
    \/ \E c \in Texts : TypeComment(c, 0)
    \/ SmTimerFires
    \/ OverlayLoaded(0)
    \/ ResumeOpenSnapshotInline
    \/ ResumeEnterInlineEditMode
    \/ ResumeLoadSnapshotDataInline
    \/ ResumeHandleCommentInput
    \/ ResumeSaveInlineEdit(TRUE)
    \/ ResumeSaveInlineEdit2(TRUE)

SpecComment == InitComment /\ [][NextComment]_vars

\* C30: while the user only opens snapshots and edits their comments, no step
\* changes the persisted tags or tagHours of a stored snapshot.
C30_CommentEditKeepsTags ==
    [][\A id \in DOMAIN db \cap DOMAIN db' :
          /\ db'[id].tags = db[id].tags
          /\ db'[id].tagHours = db[id].tagHours]_vars

\* C21: recording an edit requires an active snapshot.  A step arms the
\* SnapshotManager timeout only with currentSnapshotId set and the DrawingTool
\* timeout only with activeSnapshotId set; a timeout that fires after its id
\* was cleared starts no save and leaves the store as it is; and no save is
\* ever started for the null id.
C21_NoSaveWithoutActiveSnapshot ==
    [][/\ (smTimer = NoTimer /\ smTimer' # NoTimer) => currentSnapshotId' # Null
       /\ (dtTimer = NoTimer /\ dtTimer' # NoTimer) => activeSnapshotId' # Null
       /\ (SmTimerFires /\ currentSnapshotId = Null) => (queue' = queue /\ db' = db)
       /\ (DtTimerFires /\ activeSnapshotId = Null) => (queue' = queue /\ db' = db)
       /\ \A i \in DOMAIN queue' :
              queue'[i].k = "saveInlineEdit" => queue'[i].id # Null]_vars

\* the SnapshotManager timeout is due and the snapshot it was armed for is no
\* longer active
C21_TimeoutDueAfterIdCleared ==
    /\ smTimer = 0
    /\ currentSnapshotId = Null
    /\ lastEdit.id # Null

\* ---------------------------------------------------------- hold to delete
PressEvents == {"mousedown", "touchstart"}
ReleaseEvents == {"mouseup", "mouseleave", "touchend", "touchcancel"}

\* the delete button w is in the document
Shown(w) == IF w = "card" THEN 2 \in Cards ELSE 2 \in projects

\* the mousedown and touchstart listeners of a delete button: each starts a
\* 1000 ms timeout and stores its handle in deleteHoldTimer
Press(w, e) ==
    /\ gestures < MaxGestures
    /\ gestures' = gestures + 1
    /\ Shown(w)
    /\ handles' = handles + 1
    /\ deleteHoldTimer' = [deleteHoldTimer EXCEPT ![w] = handles']
    /\ timeouts' = timeouts \cup {[w |-> w, h |-> handles']}
    /\ held' = [held EXCEPT ![w] = @ + 1]
    /\ UNCHANGED <<store, video, manager, drawing, panel, timers, queue, toast, history,
                   inputs, sidebar, measured, loader, sharing, recent>>

\* cancelDelete, the listener of mouseup, mouseleave, touchend and touchcancel:
\* clears the timeout whose handle is in deleteHoldTimer
Release(w, e) ==
    /\ gestures < MaxGestures
    /\ gestures' = gestures + 1
    /\ Shown(w)
    /\ IF deleteHoldTimer[w] # Null
       THEN /\ timeouts' = timeouts \ {[w |-> w, h |-> deleteHoldTimer[w]]}
            /\ deleteHoldTimer' = [deleteHoldTimer EXCEPT ![w] = Null]
       ELSE UNCHANGED <<timeouts, deleteHoldTimer>>
    /\ held' = [held EXCEPT ![w] = IF e \in {"mouseup", "touchend"} /\ @ > 0
                                   THEN @ - 1 ELSE 0]
    /\ UNCHANGED <<store, video, manager, drawing, panel, timers, queue, toast, history,
                   inputs, sidebar, measured, handles, loader, sharing, recent>>

\* a hold timeout fires: deleteSnapshotById(snapshot.id, true) for the card,
\* ProjectManager.deleteProject(projectId) for the project entry; deleting what
\* is already deleted changes nothing
HoldTimerFires(w, h) ==
    /\ [w |-> w, h |-> h] \in timeouts
    /\ timeouts' = timeouts \ {[w |-> w, h |-> h]}
    /\ UNCHANGED <<inputs, measured, deleteHoldTimer, held, handles, gestures, loader, sharing, recent>>
    /\ IF ~Shown(w)
       THEN UNCHANGED <<store, video, manager, drawing, panel, timers, queue, toast,
                        history, sidebar>>
       ELSE IF w = "card" THEN DeleteSnapshotByIdCall(2)
       ELSE DeleteProjectCall(2)

NextHold ==
    \/ \E w \in Widgets, e \in PressEvents : Press(w, e)
    \/ \E w \in Widgets, e \in ReleaseEvents : Release(w, e)
    \/ \E w \in Widgets, h \in 1..MaxGestures : HoldTimerFires(w, h)
    \/ ResumeDeleteSnapshotById
    \/ ResumeDeleteProject
    \/ ResumeDeleteProject2

SpecHold == InitStored /\ [][NextHold]_vars

\* C23: a delete is executed only while its button is held: a hold timeout of
\* a delete button fires only while a press of that button has not been
\* released.
C23_DeleteOnlyWhileHeld ==
    [][\A w \in Widgets, h \in 1..MaxGestures : HoldTimerFires(w, h) => held[w] > 0]_vars

\* ---------------------------------------------------------------- projects
\* SnapshotManager.clearList: the cards, the markers, the count and the list
ClearList ==
    /\ cards' = <<>>
    /\ markers' = {}
    /\ count' = UpdateSnapshotCount(cards')
    /\ snapshots' = <<>>

\* addSnapshotToList for each entry, in order
RECURSIVE AddAllToList(_, _)
AddAllToList(cs, entries) ==
    IF entries = <<>> THEN cs
    ELSE LET last == IF cs = <<>> THEN 0
                     ELSE CHOOSE n \in {cs[i].n : i \in DOMAIN cs} :
                              \A i \in DOMAIN cs : cs[i].n <= n
             e == Head(entries)
         IN AddAllToList(Append(cs, [id |-> e.id, timestamp |-> e.timestamp, n |-> last + 1]),
                         Tail(entries))

\* ProjectManager.switchProject(p) up to `await Storage.getProject` in loadProject
SwitchProject(p) ==
    /\ UserInput
    /\ UNCHANGED <<measured, gesture, loader, sharing, recent>>
    /\ p \in projects
    /\ p # currentProjectId
    /\ CanSuspend
    /\ ClearList
    /\ queue' = Append(queue, Cont("loadProject", p, NoSnapshot, Null, 0,
                                   IF p \in projects THEN "found" ELSE "", NoUpdates))
    /\ UNCHANGED <<store, video, currentSnapshotId, quickCommentSnapshotId, isCreatingSnapshot,
                   drawing, panel, timers, toast>>
    /\ Silent

\* VideoHandler.loadProject after `await Storage.getProject`: the project
\* becomes current, video.src is set (a load in progress is abandoned) and a
\* once-listener for loadedmetadata is registered; switchProject then reports
\* (importProject reports the import, App.loadLatestProject nothing)
ResumeLoadProject ==
    /\ UNCHANGED inputs
    /\ UNCHANGED <<measured, gesture, sharing, recent>>
    /\ UNCHANGED sidebar
    /\ queue # <<>> /\ Head(queue).k = "loadProject"
    /\ LET h == Head(queue) IN
       /\ queue' = Tail(queue)
       /\ toast' = IF h.txt = 1 THEN "Project imported"
                   ELSE IF h.txt = 2 THEN toast ELSE "Project loaded"
       /\ IF h.who = "found"
          THEN /\ currentProjectId' = h.id
               /\ currentTime' = 0
               /\ loading' = TRUE
               /\ listeners' = Append(listeners, h.id)
          ELSE UNCHANGED <<currentProjectId, currentTime, loader>>
    /\ UNCHANGED <<store, paused, isPlaying, mediaEvents, manager, drawing, panel, timers>>
    /\ Silent

\* "loadedmetadata" of the source being loaded: every registered once-listener
\* runs up to its `await Storage.getSnapshots(projectId)`
RECURSIVE AwaitSnapshots(_, _)
AwaitSnapshots(q, ps) ==
    IF ps = <<>> THEN q
    ELSE LET ids == GetSnapshotIds(Head(ps))
             read == [i \in DOMAIN ids |-> Entry(ids[i], GetSnapshot(ids[i]))]
         IN AwaitSnapshots(Append(q, Cont("loadedmetadata", Head(ps), NoSnapshot, Null, 0,
                                          "", read)),
                           Tail(ps))

LoadedMetadata ==
    /\ UNCHANGED inputs
    /\ UNCHANGED <<measured, gesture, sharing, recent>>
    /\ UNCHANGED sidebar
    /\ loading
    /\ loading' = FALSE
    /\ listeners' = <<>>
    /\ queue' = AwaitSnapshots(queue, listeners)
    /\ UNCHANGED <<store, video, manager, drawing, panel, timers, toast>>
    /\ Silent

\* the loadedmetadata listener after `await Storage.getSnapshots`: the cards
\* and markers of the snapshots read are added to the sidebar
ResumeLoadSnapshots ==
    /\ UNCHANGED inputs
    /\ UNCHANGED standalone
    /\ queue # <<>> /\ Head(queue).k = "loadedmetadata"
    /\ LET h == Head(queue) IN
       /\ snapshots' = h.upd
       /\ cards' = SortSnapshotsByTimecode(AddAllToList(cards, h.upd))
       /\ markers' = markers \cup {h.upd[i].id : i \in DOMAIN h.upd}
       /\ count' = UpdateSnapshotCount(cards')
       /\ queue' = Tail(queue)
    /\ UNCHANGED <<store, video, currentSnapshotId, quickCommentSnapshotId, isCreatingSnapshot,
                   drawing, panel, timers, toast>>
    /\ Silent

\* ProjectManager.newProject: the upload state, no source, an empty sidebar
NewProject ==
    /\ UserInput
    /\ UNCHANGED <<measured, gesture, listeners, sharing, recent>>
    /\ currentProjectId # Null
    /\ loading' = FALSE
    /\ ClearList
    /\ currentProjectId' = Null
    /\ UNCHANGED <<store, paused, currentTime, isPlaying, mediaEvents, currentSnapshotId,
                   quickCommentSnapshotId, isCreatingSnapshot, drawing, panel, timers, queue,
                   toast>>
    /\ Silent

\* projects are switched and reset while snapshots are created by tag clicks
\* and deleted from their cards
NextProjects ==
    \/ \E p \in {1, 2} : SwitchProject(p)
    \/ NewProject
    \/ ResumeLoadProject
    \/ LoadedMetadata
    \/ ResumeLoadSnapshots
    \/ \E t \in Tags : ClickTag(t)
    \/ \E id \in 1..MaxId : DeleteSnapshotById(id)
    \/ ResumeCaptureAdd
    \/ ResumeCaptureGet(0)
    \/ ResumeLoadSnapshotDataInline
    \/ ResumeSaveInlineEdit(TRUE)
    \/ ResumeDeleteSnapshotById

SpecProjects == InitStored /\ [][NextProjects]_vars

\* no handler is suspended and no source is being loaded
Settled == queue = <<>> /\ ~loading

\* C24: whenever no handler is suspended and no source is being loaded, the
\* ids of the cards, the ids of the markers and the ids of the stored
\* snapshots of VideoHandler.currentProjectId are the same set, and no card
\* id occurs twice.
C24_SidebarShowsCurrentProject ==
    Settled =>
        /\ Cards = ProjectSnapshots(currentProjectId)
        /\ markers = ProjectSnapshots(currentProjectId)
        /\ \A i, j \in DOMAIN cards : cards[i].id = cards[j].id => i = j

\* ----------------------------------------------------------------- sharing
\* a data URL "data:<media type>;base64,<content>" is written as the number
\* 10 * (index of the media type) + content, as Composite writes a PNG
MediaTypes == <<"image/png", "application/octet-stream">>
DataURL(mime, data) == 10 * (CHOOSE i \in DOMAIN MediaTypes : MediaTypes[i] = mime) + data
MimeOf(dataURL) == MediaTypes[dataURL \div 10]
DataOf(dataURL) == dataURL % 10

\* canvas.toDataURL('image/png')
Png == MediaTypes[1]
DataURLs == {DataURL(Png, data) : data \in 1..MaxBytes}

\* dataURLtoBlob: the media type of the URL and the decoded content
DataURLtoBlob(dataURL) == [type |-> MimeOf(dataURL), bytes |-> DataOf(dataURL)]

\* zip.file(name, blob): the archive keeps the content under the name
ZipFile(blob) == blob.bytes

\* file.async('blob'): the content; the type is the one the library gives it
AsyncBlob(content, type) == [type |-> type, bytes |-> content]

\* the types a Blob read from the archive may have: none, or image/png
BlobTypes == {"", Png}

\* FileReader.readAsDataURL: a Blob without type reads as application/octet-stream
BlobToDataURL(blob) ==
    DataURL(IF blob.type = "" THEN "application/octet-stream" ELSE blob.type, blob.bytes)

\* JSON.stringify and JSON.parse of plain data
Stringify(value) == <<"json", value>>
Parse(text) == text[2]

\* exportProject: the files written for one snapshot; a file of the folder
\* is <<content>>, a file that is not written is <<>>
ExportSnapshot(snapshot) ==
    [meta |-> Stringify([timestamp |-> snapshot.timestamp, comment |-> snapshot.comment,
                         tags |-> snapshot.tags, tagHours |-> snapshot.tagHours]),
     original |-> IF snapshot.originalImage # Null
                  THEN <<ZipFile(DataURLtoBlob(snapshot.originalImage))>> ELSE <<>>,
     markup |-> IF snapshot.markedUpImage # Null
                THEN <<ZipFile(DataURLtoBlob(snapshot.markedUpImage))>> ELSE <<>>,
     fabric |-> IF snapshot.fabricData # Null
                THEN <<Stringify(snapshot.fabricData)>> ELSE <<>>]

\* importProject: the snapshot passed to Storage.addSnapshot for one folder
ImportSnapshot(files, projectId, type) ==
    [projectId |-> projectId,
     timestamp |-> Parse(files.meta).timestamp,
     originalImage |-> IF files.original # <<>>
                       THEN BlobToDataURL(AsyncBlob(files.original[1], type)) ELSE Null,
     markedUpImage |-> IF files.markup # <<>>
                       THEN BlobToDataURL(AsyncBlob(files.markup[1], type)) ELSE Null,
     fabricData |-> IF files.fabric # <<>> THEN Parse(files.fabric[1]) ELSE Null,
     comment |-> Parse(files.meta).comment,
     tags |-> Parse(files.meta).tags,
     tagHours |-> Parse(files.meta).tagHours]

\* Storage.addSnapshot of a snapshot that carries its images and drawing
AddSnapshotWithImages(snapshot) ==
    (nextId :> [projectId |-> snapshot.projectId,
                timestamp |-> snapshot.timestamp,
                originalImage |-> snapshot.originalImage,
                markedUpImage |-> snapshot.markedUpImage,
                fabricData |-> snapshot.fabricData,
                comment |-> snapshot.comment,
                tags |-> Dedupe(snapshot.tags),
                tagHours |-> snapshot.tagHours]) @@ db

\* the snapshots a project may hold when it is exported
SharedRecords ==
    {[projectId |-> 1, timestamp |-> t, originalImage |-> o, markedUpImage |-> d[2],
      fabricData |-> d[1], comment |-> c, tags |-> g[1], tagHours |-> g[2]] :
        t \in {0, MaxTime}, o \in DataURLs, c \in 0..1,
        d \in {<<Null, Null>>} \cup {<<1, Composite(1)>>},
        g \in {<<<<>>, NoHours>>, <<<<"vfx">>, ("vfx" :> 3)>>}}

\* project 1 is loaded with one or two snapshots
InitShared ==
    /\ projects = {1, 2}
    /\ db \in {(1 :> Other) @@ (2 :> a) : a \in SharedRecords}
             \cup {(1 :> Other) @@ (2 :> a) @@ (3 :> b) : a, b \in SharedRecords}
    /\ nextId = 4
    /\ snapshots = [i \in DOMAIN GetSnapshotIds(1) |->
                       Entry(GetSnapshotIds(1)[i], db[GetSnapshotIds(1)[i]])]
    /\ cards = LoadedCards(GetSnapshotIds(1))
    /\ markers = ProjectSnapshots(1)
    /\ count = UpdateSnapshotCount(cards)
    /\ InitSession
    /\ sinceEdit = -1
    /\ InitStandalone

\* ProjectSharing.exportProject: the package of the current project
ExportProject ==
    /\ UserInput
    /\ UNCHANGED <<measured, gesture, loader, recent>>
    /\ UNCHANGED sidebar
    /\ IF currentProjectId = Null
       THEN /\ toast' = "No project to export"
            /\ UNCHANGED archive
       ELSE /\ toast' = "Project exported successfully!"
            /\ archive' = [exported |-> TRUE,
                           folders |-> [i \in DOMAIN GetSnapshots(currentProjectId) |->
                                           ExportSnapshot(GetSnapshots(currentProjectId)[i])]]
    /\ UNCHANGED <<store, video, manager, drawing, panel, timers, queue>>
    /\ Silent

\* the id Storage.createProject gives the next project
NewProjectId == (CHOOSE p \in projects : \A o \in projects : o <= p) + 1

\* ProjectSharing.importProject up to `await Storage.createProject`
ImportProject(type) ==
    /\ UserInput
    /\ UNCHANGED <<measured, gesture, loader, sharing, recent>>
    /\ UNCHANGED sidebar
    /\ archive.exported
    /\ nextId + Len(archive.folders) - 1 <= MaxId
    /\ CanSuspend
    /\ projects' = projects \cup {NewProjectId}
    /\ toast' = "Importing project..."
    /\ queue' = Append(queue, Cont("importProject", NewProjectId, NoSnapshot, Null, 0, type,
                                   archive.folders))
    /\ UNCHANGED <<db, nextId, video, manager, drawing, panel, timers>>
    /\ Silent

\* importProject after createProject or after an addSnapshot: the next
\* snapshot is added; after the last one the list is cleared and the imported
\* project is loaded
ResumeImportProject ==
    /\ UNCHANGED inputs
    /\ UNCHANGED standalone
    /\ queue # <<>> /\ Head(queue).k = "importProject"
    /\ LET h == Head(queue) IN
       IF h.upd # <<>>
       THEN /\ db' = AddSnapshotWithImages(ImportSnapshot(Head(h.upd), h.id, h.who))
            /\ nextId' = nextId + 1
            /\ queue' = Append(Tail(queue), Cont("importProject", h.id, NoSnapshot, Null, 0,
                                                 h.who, Tail(h.upd)))
            /\ UNCHANGED <<projects, snapshots, sidebar>>
       ELSE /\ ClearList
            /\ queue' = Append(Tail(queue), Cont("loadProject", h.id, NoSnapshot, Null, 1,
                                                 IF h.id \in projects THEN "found" ELSE "",
                                                 NoUpdates))
            /\ UNCHANGED store
    /\ UNCHANGED <<video, currentSnapshotId, quickCommentSnapshotId, isCreatingSnapshot,
                   drawing, panel, timers, toast>>
    /\ Silent

NextSharing ==
    \/ ExportProject
    \/ \E type \in BlobTypes : ImportProject(type)
    \/ ResumeImportProject
    \/ ResumeLoadProject
    \/ LoadedMetadata
    \/ ResumeLoadSnapshots

SpecSharing == InitShared /\ [][NextSharing]_vars

\* two snapshots agree on everything the package carries
Agree(a, b) ==
    /\ a.timestamp = b.timestamp
    /\ a.comment = b.comment
    /\ a.tags = b.tags
    /\ a.tagHours = b.tagHours
    /\ a.originalImage = b.originalImage
    /\ a.markedUpImage = b.markedUpImage
    /\ a.fabricData = b.fabricData

\* the import of project q has added all its snapshots
Imported(q) ==
    /\ q \in projects \ {1, 2}
    /\ \A i \in DOMAIN queue : ~(queue[i].k = "importProject" /\ queue[i].id = q)

\* C26: export leaves the store as it is, and the snapshots of a project
\* imported from the package pair, in timestamp order, one to one with the
\* snapshots of the exported project and agree with them on timestamp,
\* comment, tags, tagHours, original image, marked-up image and drawing data.
C26_ImportRestoresExport ==
    [][/\ ExportProject => (db' = db /\ projects' = projects /\ nextId' = nextId)
       /\ \A q \in projects' : Imported(q)' =>
              /\ Len(GetSnapshots(q)') = Len(GetSnapshots(1)')
              /\ \A i \in DOMAIN GetSnapshots(q)' :
                     Agree(GetSnapshots(q)'[i], GetSnapshots(1)'[i])]_vars

\* ------------------------------------------------- saves without canvas data
\* the continuation at the head of the queue is a saveInlineEdit that was
\* passed `undefined` as fabricData for a stored snapshot
UnboundSavePending ==
    /\ queue # <<>>
    /\ Head(queue).k = "saveInlineEdit"
    /\ Head(queue).fab = Undefined
    /\ Head(queue).id \in DOMAIN db

C32_OpeningKeepsDrawing ==
    [][\A id \in DOMAIN db \cap DOMAIN db' :
          db'[id].fabricData = db[id].fabricData]_vars

\* ------------------------------------------------------ saves after a delete
\* a snapshot id that was handed out by the store and whose record is gone
Deleted(id) == id \in 1..(nextId - 1) /\ id \notin DOMAIN db

\* the step completes a saveInlineEdit for snapshot id (either of its stages)
SaveCompletes(id) ==
    /\ queue # <<>>
    /\ Head(queue).k \in {"saveInlineEdit", "saveInlineEdit2"}
    /\ Head(queue).id = id
    /\ queue' = Tail(queue)

\* C33: a deleted snapshot stays deleted.  No step re-creates the record of a
\* deleted id, and an auto-save for that id that completes after the delete
\* changes no record and adds no card and no timeline marker.
C33_DeletedStaysDeleted ==
    [][\A id \in 1..MaxId :
          Deleted(id) =>
             /\ id \notin DOMAIN db'
             /\ SaveCompletes(id) =>
                   /\ db' = db
                   /\ wrote' = Null
                   /\ cards' = cards
                   /\ markers' = markers]_vars

\* a save that read its snapshot before the delete is about to write
C33_SaveInFlightAfterDelete ==
    /\ queue # <<>>
    /\ Head(queue).k = "saveInlineEdit"
    /\ Head(queue).snap # NoSnapshot
    /\ Deleted(Head(queue).id)

\* ------------------------------------------------- the list and the store
\* the ids held by SnapshotManager.snapshots
Listed == {snapshots[i].id : i \in DOMAIN snapshots}

\* C34: whenever a project is loaded and no handler, timeout or image load is
\* pending, the in-memory list (if it holds snapshots only) holds exactly the
\* stored snapshots of the current project and every entry's fabricData is
\* the persisted fabricData, so that what displayMarkupsAtTimestamp shows is
\* the latest saved drawing.
C34_ListMatchesStore ==
    (/\ Quiescent /\ mediaEvents = <<>> /\ overlay = NoOverlay
     /\ currentProjectId # Null /\ ~HasUndefined(snapshots)) =>
        /\ Listed = ProjectSnapshots(currentProjectId)
        /\ \A i \in DOMAIN snapshots :
              snapshots[i].fabricData = db[snapshots[i].id].fabricData

\* ------------------------------------------------------ keyboard navigation
\* entry a of the list comes before entry b on the timeline (timestamp order,
\* equal timestamps in list order)
Before(a, b) ==
    \/ snapshots[a].timestamp < snapshots[b].timestamp
    \/ snapshots[a].timestamp = snapshots[b].timestamp /\ a < b

\* the list positions of the active snapshot
ActiveEntries == {i \in DOMAIN snapshots : snapshots[i].id = currentSnapshotId}

\* entry n directly follows entry c on the timeline
Follows(c, n) ==
    Before(c, n) /\ ~\E o \in DOMAIN snapshots : Before(c, o) /\ Before(o, n)

\* the snapshot a navigation step has asked enterInlineEditMode to open
Opened == queue'[Len(queue')].id

GetLatestProject ==
    IF projects = {} THEN Null
    ELSE CHOOSE p \in projects : \A q \in projects :
            \/ lastEditedAt[q] < lastEditedAt[p]
            \/ lastEditedAt[q] = lastEditedAt[p] /\ p <= q

\* the page has just been opened: no project is loaded, the sidebar is empty;
\* the store holds what earlier sessions left
InitStartup ==
    /\ projects = {1, 2}
    /\ db = (1 :> Other) @@ (2 :> StoredA) @@ (3 :> StoredB)
    /\ nextId = 4
    /\ paused = TRUE
    /\ currentTime = 0
    /\ currentProjectId = Null
    /\ isPlaying = FALSE
    /\ mediaEvents = <<>>
    /\ currentSnapshotId = Null
    /\ quickCommentSnapshotId = Null
    /\ isCreatingSnapshot = FALSE
    /\ snapshots = <<>>
    /\ activeSnapshotId = Null
    /\ canvasObjs = 0
    /\ canvasReady = FALSE
    /\ editing = FALSE
    /\ overlay = NoOverlay
    /\ flows = <<>>
    /\ comment = 0
    /\ tagActive = {}
    /\ hoursValue = [t \in Tags |-> ""]
    /\ smTimer = NoTimer
    /\ dtTimer = NoTimer
    /\ queue = <<>>
    /\ toast = ""
    /\ wrote = Null
    /\ lastEdit = NoEdit
    /\ lastDraw = Null
    /\ toggledOff = NoToggle
    /\ retoggle = NoRetoggle
    /\ persistFailures = 0
    /\ playCapture = FALSE
    /\ sinceEdit = -1
    /\ burstWrites = -1
    /\ inputs = 0
    /\ cards = <<>>
    /\ markers = {}
    /\ count = 0
    /\ InitStandalone

\* a handler of an earlier or the present session calls Storage.addSnapshot
\* for project p
AddSnapshotTo(p) ==
    /\ UserInput
    /\ p \in projects
    /\ nextId <= MaxId
    /\ db' = AddSnapshot([NoSnapshot EXCEPT !.projectId = p])
    /\ nextId' = nextId + 1
    /\ lastEditedAt' = UpdateLastEditedAt(p)
    /\ mutated' = p
    /\ UNCHANGED <<projects, now, video, manager, drawing, panel, timers, queue, toast,
                   history, sidebar, measured, gesture, loader, sharing>>

\* Storage.updateSnapshot(id, {comment}) for a stored snapshot
UpdateSnapshotAt(id, c) ==
    /\ UserInput
    /\ id \in DOMAIN db
    /\ db[id].comment # c
    /\ db' = UpdateSnapshot(id, [comment |-> c, tags |-> db[id].tags,
                                 tagHours |-> db[id].tagHours, fabricData |-> Undefined,
                                 markedUpImage |-> Undefined])
    /\ lastEditedAt' = UpdateLastEditedAt(db[id].projectId)
    /\ mutated' = db[id].projectId
    /\ UNCHANGED <<projects, nextId, now, video, manager, drawing, panel, timers, queue,
                   toast, history, sidebar, measured, gesture, loader, sharing>>

\* Storage.deleteSnapshot(id) for a stored snapshot
DeleteSnapshotAt(id) ==
    /\ UserInput
    /\ id \in DOMAIN db
    /\ db' = DeleteSnapshot(id)
    /\ lastEditedAt' = UpdateLastEditedAt(db[id].projectId)
    /\ mutated' = db[id].projectId
    /\ UNCHANGED <<projects, nextId, now, video, manager, drawing, panel, timers, queue,
                   toast, history, sidebar, measured, gesture, loader, sharing>>

\* Storage.createProject: createdAt and lastEditedAt are the present date
CreateProject ==
    /\ UserInput
    /\ NewProjectId <= MaxProjects
    /\ projects' = projects \cup {NewProjectId}
    /\ lastEditedAt' = [lastEditedAt EXCEPT ![NewProjectId] = now]
    /\ UNCHANGED <<db, nextId, now, mutated, video, manager, drawing, panel, timers, queue,
                   toast, history, sidebar, measured, gesture, loader, sharing>>

\* a millisecond passes
ClockAdvances ==
    /\ now < MaxClock
    /\ now' = now + 1
    /\ UNCHANGED <<store, lastEditedAt, mutated, video, manager, drawing, panel, timers,
                   queue, toast, history, inputs, sidebar, measured, gesture, loader, sharing>>

\* App.loadLatestProject at the end of App.init, up to `await
\* Storage.getProject` in VideoHandler.loadProject
LoadLatestProject ==
    /\ currentProjectId = Null /\ queue = <<>> /\ ~loading
    /\ GetLatestProject # Null
    /\ queue' = <<Cont("loadProject", GetLatestProject, NoSnapshot, Null, 2, "found",
                       NoUpdates)>>
    /\ UNCHANGED <<store, video, manager, drawing, panel, timers, toast, history, inputs,
                   sidebar, standalone>>

NextStartup ==
    \/ \E p \in 1..MaxProjects : AddSnapshotTo(p)
    \/ \E id \in 1..MaxId, c \in Texts : UpdateSnapshotAt(id, c)
    \/ \E id \in 1..MaxId : DeleteSnapshotAt(id)
    \/ CreateProject
    \/ ClockAdvances
    \/ LoadLatestProject
    \/ ResumeLoadProject
    \/ LoadedMetadata
    \/ ResumeLoadSnapshots

SpecStartup == InitStartup /\ [][NextStartup]_vars

\* the step adds, updates or deletes a snapshot of project p
Mutation(p) ==
    \/ AddSnapshotTo(p)
    \/ \E id \in ProjectSnapshots(p) :
          \/ DeleteSnapshotAt(id)
          \/ \E c \in Texts : UpdateSnapshotAt(id, c)

\* the step is the start-up load of project p
StartupLoads(p) == LoadLatestProject /\ queue'[1].id = p

\* C38 (as amended): a snapshot add, update or delete in project P sets P's
\* lastEditedAt to the present date, which is not before its old value and
\* not before any other project's; Storage.getLatestProject then returns P,
\* or a project with a smaller key that carries the same date.  Start-up
\* loads a project with the latest lastEditedAt, which createProject sets too.
C38_MutationStampsProject ==
    [][\A p \in 1..MaxProjects :
          /\ Mutation(p) =>
                /\ lastEditedAt'[p] = now
                /\ lastEditedAt'[p] >= lastEditedAt[p]
                /\ \A q \in projects' : lastEditedAt'[q] <= lastEditedAt'[p]
                /\ \/ GetLatestProject' = p
                   \/ /\ GetLatestProject' < p
                      /\ lastEditedAt'[GetLatestProject'] = lastEditedAt'[p]
          /\ StartupLoads(p) =>
                /\ p \in projects
                /\ \A q \in projects : lastEditedAt[q] <= lastEditedAt[p]]_vars

\* start-up has loaded a project that was created after the last snapshot
\* mutation and has no snapshot
C38_StartupLoadedNewProject ==
    /\ currentProjectId # Null
    /\ currentProjectId # mutated
    /\ ProjectSnapshots(currentProjectId) = {}
    /\ lastEditedAt[currentProjectId] > lastEditedAt[mutated]

\* C38 (as stated): start-up loads the project whose snapshots were added,
\* updated or deleted last.
C38_StartupLoadsLastMutated ==
    [][\A p \in 1..MaxProjects : StartupLoads(p) => p = mutated]_vars

\* ------------------------------------------------------- the draw-first flow
\* the user only draws: a mousedown on a paused frame without active snapshot
\* starts the draw-first flow, later mousedowns add shapes, the eraser
\* removes them
NextDrawFirst ==
    \/ \E tool \in DrawingTools : MouseDown(tool, 0)
    \/ Eraser(0)
    \/ OverlayLoaded(0)
    \/ ResumeSyncAdd
    \/ ResumeSyncGet
    \/ DtTimerFires
    \/ ResumeSaveInlineEdit(TRUE)
    \/ ResumeSaveInlineEdit2(TRUE)

\* the event loop runs every due timeout, every settled promise's
\* continuation and the image's onload; the user need not act
FairDrawFirst ==
    /\ WF_vars(OverlayLoaded(0))
    /\ WF_vars(ResumeSyncAdd)
    /\ WF_vars(ResumeSyncGet)
    /\ WF_vars(DtTimerFires)
    /\ WF_vars(ResumeSaveInlineEdit(TRUE))
    /\ WF_vars(ResumeSaveInlineEdit2(TRUE))

SpecDrawFirst == Init /\ [][NextDrawFirst]_vars /\ FairDrawFirst

\* the first shape of a draw-first flow is on the canvas
DrawnFirst == flows # <<>> /\ flows[1].ready /\ canvasObjs > 0

\* the stored drawing of the snapshot created by the draw-first flow is what
\* the canvas holds
PersistedFirst ==
    \E id \in ProjectSnapshots(currentProjectId) : db[id].fabricData = GetCanvasData

\* C35: in the draw-first flow the shape drawn is eventually persisted in the
\* fabricData of the snapshot the flow created, whatever the order of the
\* background store save and the drawing auto-save timeout.
C35_DrawnShapeIsPersisted == DrawnFirst ~> PersistedFirst

\* ----------------------------------------------------- edits reach the store
\* the user opens stored snapshots and edits comment, tags and hours in the
\* inline panels; the store accepts every write
NextEditing ==
    \/ \E id \in 1..MaxId : ClickCard(id)
    \/ \E c \in {0, MaxText} : TypeComment(c, 0)
    \/ \E t \in {"vfx"} : ClickTag(t)
    \/ \E t \in {"vfx"}, v \in {"3", "0"} : TypeHours(t, v, 0)
    \/ OverlayLoaded(0)
    \/ SmTimerFires
    \/ ResumeOpenSnapshotInline
    \/ ResumeHandleCommentInput
    \/ ResumeCaptureAdd
    \/ ResumeCaptureGet(0)
    \/ ResumeEnterInlineEditMode
    \/ ResumeLoadSnapshotDataInline
    \/ ResumeSaveInlineEdit(TRUE)
    \/ ResumeSaveInlineEdit2(TRUE)

\* a step of the event loop: a due timeout, a continuation or the overlay's
\* onload
LoopEditing ==
    \/ OverlayLoaded(0)
    \/ SmTimerFires
    \/ ResumeOpenSnapshotInline
    \/ ResumeHandleCommentInput
    \/ ResumeCaptureAdd
    \/ ResumeCaptureGet(0)
    \/ ResumeEnterInlineEditMode
    \/ ResumeLoadSnapshotDataInline
    \/ ResumeSaveInlineEdit(TRUE)
    \/ ResumeSaveInlineEdit2(TRUE)

\* the event loop keeps running while something is pending; the user need
\* not act
FairEditing == WF_vars(LoopEditing)

SpecEditing == InitStored /\ [][NextEditing]_vars /\ FairEditing

\* snapshot id is active and the last edit of the panels was made for it
EditedActive(id) == currentSnapshotId = id /\ lastEdit.id = id

\* the stored comment, tags and tagHours of snapshot id are the panels' contents
PanelsStored(id) ==
    /\ id \in DOMAIN db
    /\ db[id].comment = comment
    /\ db[id].tags = PanelTags
    /\ db[id].tagHours = PanelTagHours

====
